---- MODULE Spec2Model ----
(***************************************************************************)
(* A model of bioprocs/utils/tsvio.py: the delimited-text Reader and       *)
(* Writer classes, their entry points TsvReader / TsvWriter, and the       *)
(* synchronized multi-file scan SimRead.                                   *)
(*                                                                         *)
(* Text is modelled character by character: a Python str is a sequence of  *)
(* one-character strings, a file is the flat sequence of its characters,   *)
(* and a read position is a character offset into it.                      *)
(***************************************************************************)
EXTENDS Integers, Sequences, FiniteSets, TLC

VARIABLES
    fs,       \* the file system: fs[i] is the text of file i
    io,       \* what has been done to the files: opened, read, created
    cfg,      \* the keyword arguments the object under test was built with
    readers,  \* the Reader objects: SimRead.readers, or the one Reader built
    writer,   \* the Writer object, <<>> while there is none
    lines,    \* run()'s local `lines`: the current row of every stream
    m,        \* run()'s local `m`: the last result of the match function
    pc,       \* where the program is
    err,      \* the exception that left the call, NoErr if none
    calls,    \* the callback's log: the rows it was invoked with, in order
    obs       \* observations of the run (counters, last arguments)

vars == <<fs, io, cfg, readers, writer, lines, m, pc, err, calls, obs>>

-----------------------------------------------------------------------------
(* Bounds of the model *)

\* keys of the data rows of a SimRead input file are drawn from 1..MaxKey
MaxKey == 3
\* a SimRead scan runs over 2..MaxStreams files
MaxStreams == 3
\* the input files of a scan hold at most MaxRows data rows in all
MaxRows == 6

-----------------------------------------------------------------------------
(* Characters and strings *)

TAB == "\t"
NL == "\n"

\* the characters of the model, in ASCII order
Alphabet ==
    << "\t", "\n", " ", "#", "+", ",", "-", ".",
       "0", "1", "2", "3", "4", "5", "6", "7", "8", "9",
       "A", "B", "C", "D", "E", "F", "G", "H", "I", "J", "K", "L", "M",
       "N", "O", "P", "Q", "R", "S", "T", "U", "V", "W", "X", "Y", "Z",
       "a", "b", "c", "d", "e", "f", "g", "h", "i", "j", "k", "l", "m",
       "n", "o", "p", "q", "r", "s", "t", "u", "v", "w", "x", "y", "z" >>

Ord(c) == CHOOSE i \in 1..Len(Alphabet) : Alphabet[i] = c

UpperCase == SubSeq(Alphabet, 19, 44)
LowerCase == SubSeq(Alphabet, 45, 70)
Digits    == SubSeq(Alphabet, 9, 18)

IsLower(c) == \E i \in 1..26 : LowerCase[i] = c
IsUpper(c) == \E i \in 1..26 : UpperCase[i] = c
IsDigit(c) == \E i \in 1..10 : Digits[i] = c

\* str.upper() and str.lower()
Upper(s) == [i \in 1..Len(s) |->
               IF IsLower(s[i]) THEN Alphabet[Ord(s[i]) - 26] ELSE s[i]]
Lower(s) == [i \in 1..Len(s) |->
               IF IsUpper(s[i]) THEN Alphabet[Ord(s[i]) + 26] ELSE s[i]]

\* str.startswith(pre)
StartsWith(s, pre) ==
    /\ Len(pre) <= Len(s)
    /\ SubSeq(s, 1, Len(pre)) = pre

\* Python's < on two str: lexicographic by character code
RECURSIVE StrLess(_, _)
StrLess(a, b) ==
    IF b = <<>> THEN FALSE
    ELSE IF a = <<>> THEN TRUE
    ELSE IF a[1] = b[1] THEN StrLess(Tail(a), Tail(b))
    ELSE Ord(a[1]) < Ord(b[1])

\* str.rstrip(chars) and str.strip(chars), chars a set of characters
RECURSIVE RStrip(_, _)
RStrip(s, chars) ==
    IF s # <<>> /\ s[Len(s)] \in chars
    THEN RStrip(SubSeq(s, 1, Len(s) - 1), chars)
    ELSE s

RECURSIVE LStrip(_, _)
LStrip(s, chars) ==
    IF s # <<>> /\ s[1] \in chars THEN LStrip(Tail(s), chars) ELSE s

Strip(s, chars) == LStrip(RStrip(s, chars), chars)

Whitespace == {" ", "\t", "\n"}

\* str.split(sep) for a non-empty sep: cut at every occurrence, left to right
RECURSIVE SplitFrom(_, _, _)
SplitFrom(s, sep, cur) ==
    IF s = <<>> THEN <<cur>>
    ELSE IF StartsWith(s, sep)
         THEN <<cur>> \o SplitFrom(SubSeq(s, Len(sep) + 1, Len(s)), sep, <<>>)
         ELSE SplitFrom(Tail(s), sep, Append(cur, s[1]))

Split(s, sep) == SplitFrom(s, sep, <<>>)

\* sep.join(parts)
RECURSIVE Join(_, _)
Join(sep, parts) ==
    IF parts = <<>> THEN <<>>
    ELSE IF Len(parts) = 1 THEN parts[1]
    ELSE parts[1] \o sep \o Join(sep, Tail(parts))

\* str(n) of an int
RECURSIVE NatToStr(_)
NatToStr(n) ==
    IF n < 10 THEN <<Digits[n + 1]>>
    ELSE Append(NatToStr(n \div 10), Digits[(n % 10) + 1])

IntToStr(n) == IF n < 0 THEN <<"-">> \o NatToStr(0 - n) ELSE NatToStr(n)

\* int(s): surrounding whitespace, an optional sign, then digits only
RECURSIVE DigitsToNat(_)
DigitsToNat(s) ==
    IF s = <<>> THEN 0
    ELSE 10 * DigitsToNat(SubSeq(s, 1, Len(s) - 1)) + (Ord(s[Len(s)]) - Ord("0"))

IntBody(s) == IF s # <<>> /\ s[1] \in {"+", "-"} THEN Tail(s) ELSE s

IsIntText(s) ==
    LET b == IntBody(Strip(s, Whitespace))
    IN  b # <<>> /\ \A i \in 1..Len(b) : IsDigit(b[i])

ParseInt(s) ==
    LET t == Strip(s, Whitespace)
    IN  IF t[1] = "-" THEN 0 - DigitsToNat(IntBody(t)) ELSE DigitsToNat(IntBody(t))

\* float(s) for decimal text: surrounding whitespace, an optional sign, digits
\* with at most one point and at least one digit
PointAt(b) == IF \E i \in 1..Len(b) : b[i] = "." 
              THEN CHOOSE i \in 1..Len(b) : b[i] = "." /\ \A j \in 1..(i - 1) : b[j] # "."
              ELSE Len(b) + 1
IntPart(b) == SubSeq(b, 1, PointAt(b) - 1)
FracPart(b) == SubSeq(b, PointAt(b) + 1, Len(b))

IsFloatText(s) ==
    LET b == IntBody(Strip(s, Whitespace))
    IN  /\ Len(IntPart(b)) + Len(FracPart(b)) > 0
        /\ \A i \in 1..Len(IntPart(b)) : IsDigit(IntPart(b)[i])
        /\ \A i \in 1..Len(FracPart(b)) : IsDigit(FracPart(b)[i])

\* the canonical decimal text of float(s): 5 -> 5.0, 0.50 -> 0.5, -0 -> 0.0
ParseFloat(s) ==
    LET t    == Strip(s, Whitespace)
        b    == IntBody(t)
        ip   == LStrip(IntPart(b), {"0"})
        fp   == RStrip(FracPart(b), {"0"})
        zero == ip = <<>> /\ fp = <<>>
    IN  (IF t[1] = "-" /\ ~zero THEN <<"-">> ELSE <<>>)
        \o (IF ip = <<>> THEN <<"0">> ELSE ip) \o <<".">>
        \o (IF fp = <<>> THEN <<"0">> ELSE fp)

-----------------------------------------------------------------------------
(* Values, rows and exceptions *)

\* a Python value held by a Record: a str, an int, or a float given by its
\* decimal text in canonical form (no leading or trailing zeros: 5.0, 0.5)
StrVal(s) == [t |-> "str", s |-> s, i |-> 0]
IntVal(n) == [t |-> "int", s |-> <<>>, i |-> n]
FloatVal(s) == [t |-> "float", s |-> s, i |-> 0]

\* a row a Reader yields: a TsvRecord (pairs key, value in schema order) or,
\* from the Nometa reader, the plain list of the line's fields
RecordRow(pairs) == [t |-> "record", v |-> pairs]
ListRow(fields)  == [t |-> "list", v |-> fields]
NoRow == [t |-> "none", v |-> <<>>]

\* no exception
NoErr == [type |-> "", orig |-> "", where |-> "", lines |-> <<>>]

\* an exception raised as cls(msg)
Raised(cls, msg) == [type |-> cls, orig |-> msg, where |-> "", lines |-> <<>>]

-----------------------------------------------------------------------------
(* Files *)

\* the offset just after the line that starts at offset p (file.readline)
LineEnd(text, p) ==
    IF \E i \in (p + 1)..Len(text) : text[i] = NL
    THEN CHOOSE i \in (p + 1)..Len(text) :
            /\ text[i] = NL
            /\ \A j \in (p + 1)..(i - 1) : text[j] # NL
    ELSE Len(text)

\* file.readline() at offset p: the line with its newline, <<>> at end of file
Readline(text, p) == SubSeq(text, p + 1, LineEnd(text, p))

\* s.endswith(suf)
EndsWith(s, suf) ==
    /\ Len(suf) <= Len(s)
    /\ SubSeq(s, Len(s) - Len(suf) + 1, Len(s)) = suf

GzSuffix == <<".", "g", "z">>

\* the first bytes of a gzip stream, taken as one character
GzMagic == "<1f8b>"

\* TsvReaderBase.__init__: openfunc is gzip.open when the path ends in '.gz',
\* and the file is opened with openfunc
ReaderOpenFunc(infile) == IF EndsWith(infile, GzSuffix) THEN "gzip.open" ELSE "open"

\* TsvWriterBase.__init__: openfunc is computed in the same way, and the file
\* is then opened with open(outfile, 'w')
WriterOpenFunc(outfile) == "open"

\* what reaches the file when text is written to a file object opened with
\* func
WriteThrough(func, text) == IF func = "gzip.open" THEN <<GzMagic>> \o text ELSE text

\* what a file object opened with func reads from a file holding data, and the
\* exception its first read raises: gzip reads an empty file as one at its
\* end, and refuses a file that does not start with the magic bytes
ReadThrough(func, data) ==
    IF func = "open" \/ data = <<>> THEN [exc |-> "", text |-> data]
    ELSE IF data[1] = GzMagic THEN [exc |-> "", text |-> Tail(data)]
    ELSE [exc |-> "IOError", text |-> <<>>]

-----------------------------------------------------------------------------
(* TsvMeta *)

\* one schema entry: column name k, converter c: "none", "int", "float", or
\* "third" for a caller's function lambda s: s[2]
Col(k, c) == [k |-> k, c |-> c]

Callable(c) == c \in {"int", "float", "third"}

\* OrderedDict.__setitem__: a known key keeps its place, a new one goes last
MetaSet(meta, e) ==
    IF \E j \in 1..Len(meta) : meta[j].k = e.k
    THEN [j \in 1..Len(meta) |-> IF meta[j].k = e.k THEN e ELSE meta[j]]
    ELSE Append(meta, e)

\* TsvMeta.add(*args), the arguments given as (name, converter) entries
RECURSIVE MetaAdd(_, _)
MetaAdd(meta, entries) ==
    IF entries = <<>> THEN meta
    ELSE MetaAdd(MetaSet(meta, entries[1]), Tail(entries))

\* the arguments of add, append and prepend: a bare name, a tuple
\* (name, converter), a list of bare names and tuples
Name(k) == [t |-> "name", k |-> k, c |-> "none", items |-> <<>>]
Pair(k, c) == [t |-> "tuple", k |-> k, c |-> c, items |-> <<>>]
List(items) == [t |-> "list", k |-> <<>>, c |-> "none", items |-> items]

\* bool(converter): None and 0 are false; a function and a non-empty str
\* ("text") are true
ConvTrue(c) == c \notin {"none", "zero"}

\* the key an element of a list argument becomes: the element itself, which
\* for a tuple is the tuple, written here as its text
TupleKey(k, c) == <<"(">> \o k \o <<",", c, ")">>
ItemKey(a) == IF a.t = "tuple" THEN TupleKey(a.k, a.c) ELSE a.k

\* for a in arg: self[a] = None
ListEntries(items) == [i \in 1..Len(items) |-> Col(ItemKey(items[i]), "none")]

\* TsvMeta.add(*args): the exception it raises, if any, and the schema it
\* leaves; the arguments before the one that is refused have been added
RECURSIVE TsvMeta_add(_, _)
TsvMeta_add(meta, args) ==
    IF args = <<>> THEN [exc |-> "", meta |-> meta]
    ELSE LET arg == args[1]
         IN  CASE arg.t = "list" ->
                    TsvMeta_add(MetaAdd(meta, ListEntries(arg.items)), Tail(args))
               [] arg.t = "tuple" ->
                    IF ConvTrue(arg.c) /\ ~Callable(arg.c)
                    THEN [exc |-> "TypeError", meta |-> meta]
                    ELSE TsvMeta_add(MetaSet(meta, Col(arg.k, arg.c)), Tail(args))
               [] OTHER -> TsvMeta_add(MetaSet(meta, Col(arg.k, "none")), Tail(args))

\* TsvMeta.append
TsvMeta_append(meta, args) == TsvMeta_add(meta, args)

\* TsvMeta(*args)
TsvMeta_init(args) == TsvMeta_add(<<>>, args)

\* the loop of prepend: the exception it raises, if any, and the list preps
RECURSIVE Preps(_)
Preps(args) ==
    IF args = <<>> THEN [exc |-> "", preps |-> <<>>]
    ELSE LET arg  == args[1]
             rest == Preps(Tail(args))
             one  == CASE arg.t = "list" -> ListEntries(arg.items)
                       [] arg.t = "tuple" -> <<Col(arg.k, arg.c)>>
                       [] OTHER -> <<Col(arg.k, "none")>>
         IN  IF arg.t = "tuple" /\ ConvTrue(arg.c) /\ ~Callable(arg.c)
             THEN [exc |-> "TypeError", preps |-> <<>>]
             ELSE [exc |-> rest.exc, preps |-> one \o rest.preps]

\* TsvMeta.prepend(*args): preps += self.items(); self.clear(); then every
\* pair of preps is set in turn
TsvMeta_prepend(meta, args) ==
    LET p == Preps(args)
    IN  IF p.exc # "" THEN [exc |-> p.exc, meta |-> meta]
        ELSE [exc |-> "", meta |-> MetaAdd(<<>>, p.preps \o meta)]

-----------------------------------------------------------------------------
(* TsvReaderBase and its subclasses *)

RECURSIVE SkipLines(_, _, _)
SkipLines(text, p, k) ==
    IF k <= 0 THEN p ELSE SkipLines(text, LineEnd(text, p), k - 1)

\* TsvReaderBase.__init__: open the file, read `skip` lines, take the checkpoint
TsvReaderBase_init(fi, text, delimit, comment, skip) ==
    [ cls     |-> "Base",
      fi      |-> fi,
      delimit |-> delimit,
      comment |-> comment,
      pos     |-> SkipLines(text, 0, skip),
      tell    |-> SkipLines(text, 0, skip),
      meta    |-> <<>>,
      index   |-> 0 ]

\* a variant of the readline loop that passes over one comment line at most
CommentSkipOnce(text, p, comment) ==
    IF comment # <<>> /\ StartsWith(Readline(text, p), comment)
    THEN LineEnd(text, p)
    ELSE p

\* the readline loop of next() and autoMeta(): the offset of the first line at
\* or after p that does not start with the comment prefix
RECURSIVE CommentSkip(_, _, _)
CommentSkip(text, p, comment) ==
    IF comment # <<>> /\ StartsWith(Readline(text, p), comment)
    THEN CommentSkip(text, LineEnd(text, p), comment)
    ELSE p

\* TsvReaderBase.rewind
rewind(rd) == [rd EXCEPT !.pos = rd.tell]

\* a variant of autoMeta that leaves the read position after the peeked line
autoMetaNoRewind(rd, text) ==
    LET p    == CommentSkip(text, rd.pos, rd.comment)
        line == Split(RStrip(Readline(text, p), {NL}), rd.delimit)
        cols == [i \in 1..Len(line) |-> Col(<<"C", "O", "L">> \o IntToStr(i), "none")]
    IN  [rd EXCEPT !.pos = LineEnd(text, p), !.meta = MetaAdd(rd.meta, cols)]

\* TsvReaderBase.autoMeta
autoMeta(rd, text) ==
    LET p    == CommentSkip(text, rd.pos, rd.comment)
        line == Split(RStrip(Readline(text, p), {NL}), rd.delimit)
        cols == [i \in 1..Len(line) |-> Col(<<"C", "O", "L">> \o IntToStr(i), "none")]
    IN  [rewind(rd) EXCEPT !.meta = MetaAdd(rd.meta, cols)]

\* applying a schema converter to a field: the exception it raises, if any,
\* and the value it returns
Convert(c, field) ==
    CASE c = "int" ->
            IF IsIntText(field)
            THEN [exc |-> "", v |-> IntVal(ParseInt(field))]
            ELSE [exc |-> "ValueError", v |-> StrVal(field)]
      [] c = "float" ->
            IF IsFloatText(field)
            THEN [exc |-> "", v |-> FloatVal(ParseFloat(field))]
            ELSE [exc |-> "ValueError", v |-> StrVal(field)]
      [] c = "third" ->
            IF Len(field) >= 3
            THEN [exc |-> "", v |-> StrVal(<<field[3]>>)]
            ELSE [exc |-> "IndexError", v |-> StrVal(field)]
      [] OTHER -> [exc |-> "", v |-> StrVal(field)]

\* `except IndexError` in _parse: the exceptions of the converter call that
\* the clause catches
Caught(exc) == exc = "IndexError"

\* a variant of one field of _parse that hands '' to the converter when the
\* line has no field i
ParseFieldConvertsMissing(c, line, i) ==
    LET r == Convert(c, IF i > Len(line) THEN <<>> ELSE line[i])
    IN  IF Caught(r.exc) THEN [exc |-> "", v |-> StrVal(<<>>)] ELSE r

\* one field of _parse: line[i] through the converter of key i; '' when
\* line[i] or the converter raises IndexError
ParseField(c, line, i) ==
    IF i > Len(line) THEN [exc |-> "", v |-> StrVal(<<>>)]
    ELSE LET r == Convert(c, line[i])
         IN  IF Caught(r.exc) THEN [exc |-> "", v |-> StrVal(<<>>)] ELSE r

\* the TsvRecord _parse builds from the converted fields conv: the first
\* exception a converter raises ends it
TsvReaderBase_row(rd, conv) ==
    LET bad == {i \in 1..Len(conv) : conv[i].exc # ""}
    IN  IF bad # {}
        THEN [exc |-> conv[CHOOSE i \in bad : \A j \in bad : i <= j].exc,
              row |-> NoRow, rd |-> rd]
        ELSE [exc |-> "",
              row |-> RecordRow([i \in 1..Len(conv) |->
                                    [k |-> rd.meta[i].k, v |-> conv[i].v]]),
              rd  |-> rd]

\* TsvReaderBase._parse
TsvReaderBase_parse(rd, line) ==
    TsvReaderBase_row(rd, [i \in 1..Len(rd.meta) |-> ParseField(rd.meta[i].c, line, i)])

\* TsvReaderNometa._parse
TsvReaderNometa_parse(rd, line) == [exc |-> "", row |-> ListRow(line), rd |-> rd]

\* `not value`: the empty str, the int 0 and the float 0.0 are false
Falsy(v) ==
    \/ v.t = "str" /\ v.s = <<>>
    \/ v.t = "int" /\ v.i = 0
    \/ v.t = "float" /\ v.s = <<"0", ".", "0">>

\* record.KEY and record.KEY = value on a TsvRecord that holds the key
Attr(pairs, k) == pairs[CHOOSE j \in 1..Len(pairs) : pairs[j].k = k].v
SetAttr(pairs, k, v) ==
    [j \in 1..Len(pairs) |-> IF pairs[j].k = k THEN [k |-> k, v |-> v] ELSE pairs[j]]

NAME == <<"N", "A", "M", "E">>
SCORE == <<"S", "C", "O", "R", "E">>
STRAND == <<"S", "T", "R", "A", "N", "D">>

\* `self.index += 1` after a name has been synthesized
IndexNext(index) == index + 1

\* `if not r.KEY: r.KEY = value`
OrDefault(pairs, k, v) == IF Falsy(Attr(pairs, k)) THEN SetAttr(pairs, k, v) ELSE pairs

\* the defaults TsvReaderBed._parse puts into the record r of the base _parse
TsvReaderBed_defaults(r, rd) ==
    IF r.exc # "" THEN r
    ELSE [exc |-> "",
          row |-> RecordRow(
                    OrDefault(
                      OrDefault(
                        OrDefault(r.row.v, NAME,
                                  StrVal(<<"B", "E", "D">> \o IntToStr(rd.index))),
                        SCORE, FloatVal(<<"0", ".", "0">>)),
                      STRAND, StrVal(<<"+">>))),
          rd  |-> IF Falsy(Attr(r.row.v, NAME))
                  THEN [rd EXCEPT !.index = IndexNext(@)]
                  ELSE rd]

\* TsvReaderBed._parse
TsvReaderBed_parse(rd, line) == TsvReaderBed_defaults(TsvReaderBase_parse(rd, line), rd)

\* self._parse(...), dispatched on the Reader's class
parse(rd, line) ==
    CASE rd.cls = "Nometa" -> TsvReaderNometa_parse(rd, line)
      [] rd.cls = "Bed"    -> TsvReaderBed_parse(rd, line)
      [] OTHER             -> TsvReaderBase_parse(rd, line)

\* TsvReaderBase.next
next(rd, text) ==
    LET p    == CommentSkip(text, rd.pos, rd.comment)
        line == RStrip(Readline(text, p), {NL})
        rd2  == [rd EXCEPT !.pos = LineEnd(text, p)]
    IN  IF line = <<>>
        THEN [exc |-> "StopIteration", row |-> NoRow, rd |-> rd2]
        ELSE parse(rd2, Split(line, rd.delimit))

\* TsvReaderBase.dump: the rows it collects until next() raises
RECURSIVE dump(_, _)
dump(rd, text) ==
    LET r == next(rd, text)
    IN  IF r.exc # "" THEN <<>> ELSE <<r.row>> \o dump(r.rd, text)

\* the exception that leaves dump(), "" when it returns its list
RECURSIVE dumpRaises(_, _)
dumpRaises(rd, text) ==
    LET r == next(rd, text)
    IN  IF r.exc = "StopIteration" THEN ""
        ELSE IF r.exc # "" THEN r.exc
        ELSE dumpRaises(r.rd, text)

\* the Reader as dump() leaves it
RECURSIVE dumpEnd(_, _)
dumpEnd(rd, text) ==
    LET r == next(rd, text)
    IN  IF r.exc # "" THEN r.rd ELSE dumpEnd(r.rd, text)

-----------------------------------------------------------------------------
(* The format-specialised Readers *)

\* TsvReaderBed.META (TsvReaderBedx.META is the same table)
BedMETA ==
    << Col(<<"C", "H", "R">>, "none"),
       Col(<<"S", "T", "A", "R", "T">>, "int"),
       Col(<<"E", "N", "D">>, "int"),
       Col(<<"N", "A", "M", "E">>, "none"),
       Col(<<"S", "C", "O", "R", "E">>, "float"),
       Col(<<"S", "T", "R", "A", "N", "D">>, "none") >>

\* TsvReaderBed12.META
Bed12META ==
    BedMETA \o
    << Col(<<"T", "H", "I", "C", "K", "S", "T", "A", "R", "T">>, "int"),
       Col(<<"T", "H", "I", "C", "K", "E", "N", "D">>, "int"),
       Col(<<"I", "T", "E", "M", "R", "G", "B">>, "none"),
       Col(<<"B", "L", "O", "C", "K", "C", "O", "U", "N", "T">>, "int"),
       Col(<<"B", "L", "O", "C", "K", "S", "I", "Z", "E", "S">>, "none"),
       Col(<<"B", "L", "O", "C", "K", "S", "T", "A", "R", "T", "S">>, "none") >>

\* TsvReaderBedpe.META
BedpeMETA ==
    << Col(<<"C", "H", "R", "1">>, "none"),
       Col(<<"S", "T", "A", "R", "T", "1">>, "int"),
       Col(<<"E", "N", "D", "1">>, "int"),
       Col(<<"C", "H", "R", "2">>, "none"),
       Col(<<"S", "T", "A", "R", "T", "2">>, "int"),
       Col(<<"E", "N", "D", "2">>, "int"),
       Col(<<"N", "A", "M", "E">>, "none"),
       Col(<<"S", "C", "O", "R", "E">>, "float"),
       Col(<<"S", "T", "R", "A", "N", "D", "1">>, "none"),
       Col(<<"S", "T", "R", "A", "N", "D", "2">>, "none") >>

\* TsvReaderBed.__init__
TsvReaderBed_init(fi, text, delimit, comment, skip) ==
    [TsvReaderBase_init(fi, text, delimit, comment, skip) EXCEPT
        !.cls = "Bed", !.meta = MetaAdd(<<>>, BedMETA), !.index = 1]

\* TsvReaderBed12.__init__
TsvReaderBed12_init(fi, text, delimit, comment, skip) ==
    [TsvReaderBase_init(fi, text, delimit, comment, skip) EXCEPT
        !.cls = "Bed12", !.meta = MetaAdd(<<>>, Bed12META)]

\* TsvReaderBedpe.__init__
TsvReaderBedpe_init(fi, text, delimit, comment, skip) ==
    [TsvReaderBase_init(fi, text, delimit, comment, skip) EXCEPT
        !.cls = "Bedpe", !.meta = MetaAdd(<<>>, BedpeMETA)]

\* TsvReaderBedx.__init__ with the default xcols = None
TsvReaderBedx_init(fi, text, delimit, comment, skip) ==
    [TsvReaderBase_init(fi, text, delimit, comment, skip) EXCEPT
        !.cls = "Bedx", !.meta = MetaAdd(<<>>, BedMETA)]

ROWNAMES == <<"R", "O", "W", "N", "A", "M", "E", "S">>

\* TsvReaderHead.__init__ with the default tmeta = None: the first line after
\* the skipped ones is the header, the checkpoint is taken after it
TsvReaderHead_init(fi, text, delimit, comment, skip) ==
    LET base   == TsvReaderBase_init(fi, text, delimit, comment, skip)
        header == Split(Strip(Readline(text, base.pos), {"#", TAB, NL, " "}), delimit)
        tell   == LineEnd(text, base.pos)
        row1   == Split(Strip(Readline(text, tell), Whitespace), delimit)
        names  == IF Len(row1) = Len(header) + 1 THEN <<ROWNAMES>> \o header ELSE header
    IN  [base EXCEPT
            !.cls  = "Head",
            !.tell = tell,
            !.pos  = tell,
            !.meta = MetaAdd(<<>>, [i \in 1..Len(names) |-> Col(names[i], "none")])]

\* TsvReaderNometa.__init__ with the default head = True
TsvReaderNometa_init(fi, text, delimit, comment, skip) ==
    [TsvReaderHead_init(fi, text, delimit, comment, skip) EXCEPT !.cls = "Nometa"]

-----------------------------------------------------------------------------
(* The entry points TsvReader and TsvWriter *)

\* a variant that leaves the letters after the first as they are
CapitalizeFirstOnly(ftype) == Upper(SubSeq(ftype, 1, 1)) \o SubSeq(ftype, 2, Len(ftype))

\* ftype[0].upper() + ftype[1:].lower()
Capitalize(ftype) == Upper(SubSeq(ftype, 1, 1)) \o Lower(SubSeq(ftype, 2, Len(ftype)))

TsvReaderName == <<"T", "s", "v", "R", "e", "a", "d", "e", "r">>
TsvWriterName == <<"T", "s", "v", "W", "r", "i", "t", "e", "r">>

ClsBase   == <<"B", "a", "s", "e">>
ClsBed    == <<"B", "e", "d">>
ClsBed12  == <<"B", "e", "d", "1", "2">>
ClsBedpe  == <<"B", "e", "d", "p", "e">>
ClsBedx   == <<"B", "e", "d", "x">>
ClsHead   == <<"H", "e", "a", "d">>
ClsNometa == <<"N", "o", "m", "e", "t", "a">>

\* globals(): the names the module tsvio defines that start with TsvReader or
\* TsvWriter
Globals ==
    { TsvReaderName, TsvWriterName }
    \cup { TsvReaderName \o c :
             c \in {ClsBase, ClsBed, ClsBed12, ClsBedpe, ClsBedx, ClsHead, ClsNometa} }
    \cup { TsvWriterName \o c : c \in {ClsBase, ClsNometa, ClsBed} }

\* the keyword arguments of the entry points, with their defaults
DefaultOpts ==
    [ftype |-> <<>>, cnames |-> <<>>, delimit |-> <<TAB>>, comment |-> <<"#">>, skip |-> 0]

\* klass(infile, **inopts) for a Reader class of the module
ConstructReader(klass, fi, text, o) ==
    CASE klass = TsvReaderName \o ClsBase   ->
            TsvReaderBase_init(fi, text, o.delimit, o.comment, o.skip)
      [] klass = TsvReaderName \o ClsBed    ->
            TsvReaderBed_init(fi, text, o.delimit, o.comment, o.skip)
      [] klass = TsvReaderName \o ClsBed12  ->
            TsvReaderBed12_init(fi, text, o.delimit, o.comment, o.skip)
      [] klass = TsvReaderName \o ClsBedpe  ->
            TsvReaderBedpe_init(fi, text, o.delimit, o.comment, o.skip)
      [] klass = TsvReaderName \o ClsBedx   ->
            TsvReaderBedx_init(fi, text, o.delimit, o.comment, o.skip)
      [] klass = TsvReaderName \o ClsHead   ->
            TsvReaderHead_init(fi, text, o.delimit, o.comment, o.skip)
      [] klass = TsvReaderName \o ClsNometa ->
            TsvReaderNometa_init(fi, text, o.delimit, o.comment, o.skip)

\* a variant of TsvReader.__new__ that falls back to the base Reader when the
\* format is unknown
TsvReaderOrBase(fi, text, o) ==
    LET klass == TsvReaderName \o Capitalize(o.ftype)
        rd    == IF o.ftype = <<>> \/ klass \notin Globals
                 THEN TsvReaderBase_init(fi, text, o.delimit, o.comment, o.skip)
                 ELSE ConstructReader(klass, fi, text, o)
    IN  [exc |-> "", rd |-> [rd EXCEPT !.meta = MetaAdd(@, o.cnames)]]

\* TsvReader.__new__: the exception it raises, if any, and the Reader it
\* returns; o.cnames holds the entries of cnames, (name, converter) each
TsvReader(fi, text, o) ==
    LET klass == TsvReaderName \o Capitalize(o.ftype)
    IN  IF o.ftype # <<>> /\ klass \notin Globals
        THEN [exc |-> "NoSuchReader", rd |-> <<>>]
        ELSE LET rd == IF o.ftype = <<>>
                       THEN TsvReaderBase_init(fi, text, o.delimit, o.comment, o.skip)
                       ELSE ConstructReader(klass, fi, text, o)
             IN  [exc |-> "", rd |-> [rd EXCEPT !.meta = MetaAdd(@, o.cnames)]]

\* TsvWriterBase.__init__: the file is opened for writing, which creates or
\* empties it
TsvWriterBase_init(fi, delimit) ==
    [cls |-> "Base", fi |-> fi, delimit |-> delimit, meta |-> <<>>, buf |-> <<>>]

\* TsvWriterBed.__init__: the delimiter is not passed on to the base class
TsvWriterBed_init(fi, delimit) ==
    [TsvWriterBase_init(fi, <<TAB>>) EXCEPT !.cls = "Bed", !.meta = MetaAdd(<<>>, BedMETA)]

\* TsvWriterNometa has the constructor of the base class
TsvWriterNometa_init(fi, delimit) ==
    [TsvWriterBase_init(fi, delimit) EXCEPT !.cls = "Nometa"]

\* klass(outfile, **outopts) for a Writer class of the module
ConstructWriter(klass, fi, o) ==
    CASE klass = TsvWriterName \o ClsBase   -> TsvWriterBase_init(fi, o.delimit)
      [] klass = TsvWriterName \o ClsBed    -> TsvWriterBed_init(fi, o.delimit)
      [] klass = TsvWriterName \o ClsNometa -> TsvWriterNometa_init(fi, o.delimit)

\* TsvWriter.__new__: the exception it raises, if any, and the Writer it returns
TsvWriter(fi, o) ==
    LET klass == TsvWriterName \o Capitalize(o.ftype)
    IN  IF o.ftype # <<>> /\ klass \notin Globals
        THEN [exc |-> "NoSuchWriter", wr |-> <<>>]
        ELSE LET wr == IF o.ftype = <<>>
                       THEN TsvWriterBase_init(fi, o.delimit)
                       ELSE ConstructWriter(klass, fi, o)
             IN  [exc |-> "", wr |-> [wr EXCEPT !.meta = MetaAdd(@, o.cnames)]]

\* str(value)
Str(v) == IF v.t = "int" THEN IntToStr(v.i) ELSE v.s

\* record[key] of a TsvRecord given as pairs (key, value)
HasKey(pairs, k) == \E j \in 1..Len(pairs) : pairs[j].k = k
GetItem(pairs, k) == pairs[CHOOSE j \in 1..Len(pairs) : pairs[j].k = k].v

\* a variant of TsvWriterBase.write that joins the values with a tab whatever
\* the Writer's delimiter
TsvWriterBase_writeTabbed(wr, pairs) ==
    IF \E i \in 1..Len(wr.meta) : ~HasKey(pairs, wr.meta[i].k)
    THEN [exc |-> "KeyError", text |-> <<>>]
    ELSE [exc  |-> "",
          text |-> Join(<<TAB>>,
                        [i \in 1..Len(wr.meta) |-> Str(GetItem(pairs, wr.meta[i].k))])
                   \o <<NL>>]

\* a variant of TsvWriterBase.write that writes each value as it gets it
TsvWriterBase_writePiecewise(wr, pairs) ==
    LET miss == {i \in 1..Len(wr.meta) : ~HasKey(pairs, wr.meta[i].k)}
        upto == IF miss = {} THEN Len(wr.meta)
                ELSE (CHOOSE i \in miss : \A j \in miss : i <= j) - 1
        text == Join(wr.delimit,
                     [i \in 1..upto |-> Str(GetItem(pairs, wr.meta[i].k))])
    IN  IF miss # {}
        THEN [exc |-> "KeyError", text |-> text]
        ELSE [exc |-> "", text |-> text \o <<NL>>]

\* TsvWriterBase.write: the exception it raises, if any, and the text it
\* appends to the file
TsvWriterBase_write(wr, pairs) ==
    IF \E i \in 1..Len(wr.meta) : ~HasKey(pairs, wr.meta[i].k)
    THEN [exc |-> "KeyError", text |-> <<>>]
    ELSE [exc  |-> "",
          text |-> Join(wr.delimit,
                        [i \in 1..Len(wr.meta) |-> Str(GetItem(pairs, wr.meta[i].k))])
                   \o <<NL>>]

\* an optional str argument: None, or the str given
NotGiven == [none |-> TRUE, s |-> <<>>]
Given(s) == [none |-> FALSE, s |-> s]

\* `arg or default`: None and the empty str give way to the default
Or(arg, default) == IF arg.none \/ arg.s = <<>> THEN default ELSE arg.s

\* the transform argument of writeHead: None, a function of the list of keys,
\* or a dict whose values are functions of one key or other objects
NoTransform == [t |-> "none", f |-> "", d |-> <<>>]
Bulk(f) == [t |-> "fn", f |-> f, d |-> <<>>]
PerKey(d) == [t |-> "dict", f |-> "", d |-> d]

\* callable(f) for the values of a transform
IsFn(f) == f \in {"lower", "reversed", "str"}

\* f(key): k.lower(), str(k)
CallOnKey(f, key) == IF f = "lower" THEN Lower(key) ELSE key

\* f(keys): [k.lower() for k in keys], keys[::-1], [str(k) for k in keys]
CallOnKeys(f, keys) ==
    IF f = "reversed" THEN [i \in 1..Len(keys) |-> keys[Len(keys) + 1 - i]]
    ELSE [i \in 1..Len(keys) |-> CallOnKey(f, keys[i])]

\* the keys after the transform
Transformed(keys, transform) ==
    CASE transform.t = "fn" -> CallOnKeys(transform.f, keys)
      [] transform.t = "dict" ->
            [i \in 1..Len(keys) |->
                IF ~HasKey(transform.d, keys[i]) \/ ~IsFn(GetItem(transform.d, keys[i]))
                THEN keys[i]
                ELSE CallOnKey(GetItem(transform.d, keys[i]), keys[i])]
      [] OTHER -> keys

\* TsvWriterBase.writeHead: the text it appends to the file
TsvWriterBase_writeHead(wr, prefix, delimit, transform) ==
    prefix
    \o Join(Or(delimit, wr.delimit),
            Transformed([i \in 1..Len(wr.meta) |-> wr.meta[i].k], transform))
    \o <<NL>>

\* TsvWriterNometa.writeHead: a transform that is None or empty is replaced
\* by lambda keys: [str(key) for key in keys]
TsvWriterNometa_writeHead(wr, prefix, delimit, transform) ==
    TsvWriterBase_writeHead(wr, prefix, delimit,
        IF transform.t = "none" \/ (transform.t = "dict" /\ transform.d = <<>>)
        THEN Bulk("str") ELSE transform)

\* writer.writeHead(prefix, delimit, transform)
writeHead(wr, h) ==
    IF wr.cls = "Nometa"
    THEN TsvWriterNometa_writeHead(wr, h.prefix, h.delimit, h.transform)
    ELSE TsvWriterBase_writeHead(wr, h.prefix, h.delimit, h.transform)

-----------------------------------------------------------------------------
(* SimRead *)

\* SimRead.__init__: one TsvReader per file, built with the broadcast options;
\* a Reader left without a schema derives it with autoMeta
SimRead_init(n, o) ==
    [i \in 1..n |->
        LET r == TsvReader(i, fs[i], o)
        IN  IF r.exc = "" /\ r.rd.meta = <<>>
            THEN [exc |-> "", rd |-> autoMeta(r.rd, fs[i])]
            ELSE r]

\* the first field line[0] of a row: defined on a list, KeyError on a TsvRecord
HasItem0(row) == row.t = "list"
Item0(row) == row.v[1]

\* min(data) of a non-empty list of str
MinStr(data) ==
    data[CHOOSE i \in 1..Len(data) : \A j \in 1..Len(data) : ~StrLess(data[j], data[i])]

\* a variant of _defaultMatch that names the first stream NOT at the minimum
defaultMatchFirstAhead(rows) ==
    IF \E i \in 1..Len(rows) : ~HasItem0(rows[i])
    THEN [exc |-> "KeyError", val |-> 0]
    ELSE LET data == [i \in 1..Len(rows) |-> Item0(rows[i])]
             mind == MinStr(data)
         IN  IF \A i \in 1..Len(data) : data[i] = mind
             THEN [exc |-> "", val |-> 0 - 1]
             ELSE [exc |-> "",
                   val |-> (CHOOSE i \in 1..Len(data) :
                              /\ data[i] # mind
                              /\ \A j \in 1..(i - 1) : data[j] = mind) - 1]

\* SimRead._defaultMatch: the exception it raises, if any, and its result
defaultMatch(rows) ==
    IF \E i \in 1..Len(rows) : ~HasItem0(rows[i])
    THEN [exc |-> "KeyError", val |-> 0]
    ELSE LET data == [i \in 1..Len(rows) |-> Item0(rows[i])]
             mind == MinStr(data)
         IN  IF Cardinality({i \in 1..Len(data) : data[i] = mind}) = Len(rows)
             THEN [exc |-> "", val |-> 0 - 1]
             ELSE [exc |-> "",
                   val |-> (CHOOSE i \in 1..Len(data) :
                              /\ data[i] = mind
                              /\ \A j \in 1..(i - 1) : data[j] # mind) - 1]

\* the first field of a row as a caller's match function takes it: element 0
\* of a list, the first column of a Record
FirstField(row) == IF row.t = "list" THEN row.v[1] ELSE row.v[1].v.s

\* SimRead.compare on two str (its `print a, b` writes to standard output,
\* which is no part of the state here)
compare(a, b, reverse) ==
    IF ~reverse
    THEN IF StrLess(a, b) THEN 0 ELSE IF StrLess(b, a) THEN 1 ELSE 0 - 1
    ELSE IF StrLess(b, a) THEN 0 ELSE IF StrLess(a, b) THEN 1 ELSE 0 - 1

\* a caller's match function for two streams:
\* lambda x, y: SimRead.compare(first field of x, first field of y, reverse)
compareMatch(rows, reverse) ==
    [exc |-> "", val |-> compare(FirstField(rows[1]), FirstField(rows[2]), reverse)]

\* the exception classes a caller's match function or callback raises here
UserExc == {"ValueError", "UnicodeDecodeError"}

\* whether cls(message) constructs an instance: UnicodeDecodeError takes five
\* arguments, so UnicodeDecodeError(message) raises TypeError instead
SingleArgCtor(cls) == cls # "UnicodeDecodeError"

\* raise type(ex)('\n'.join(msgs) + '\n'): the exception that leaves run()
\* when the match function or the callback has raised ex = cls(msg)
Reraise(cls, msg, where, rows) ==
    IF SingleArgCtor(cls)
    THEN [type |-> cls, orig |-> msg, where |-> where, lines |-> rows]
    ELSE Raised("TypeError", "function takes exactly 5 arguments (1 given)")

\* all(lines): a row is true when it is not empty
Truthy(row) == Len(row.v) > 0

\* the results a caller's match function returns here: negative, the index of
\* a stream, or an index past the last stream
MatchResults(n) == (0 - 1)..n

NoObs ==
    [ nfetch    |-> 0,       \* calls of next(reader) made by run()
      nmatch    |-> 0,       \* calls of the match function
      ncalls    |-> 0,       \* calls of the callback
      matchArgs |-> <<>>,    \* the arguments of the last call of match
      matchRes  |-> 0,       \* what the last call of match returned
      doArgs    |-> <<>>,    \* the arguments of the last call of the callback
      stopped   |-> FALSE,   \* a Reader has signalled StopIteration to run()
      thrown    |-> "",      \* the class of the exception match / do raised
      thrownIn  |-> "" ]     \* "MATCH" or "DO"

\* a variant of the test of self.do that never finds the callback missing
DoNeverMissing(scan) == FALSE

\* `if not self.do` at the top of run()
DoMissing(scan) == scan.do = "none"

\* a variant in which StopIteration does not end the scan
OnStopIterationGoOn == "loop"

\* `except StopIteration: return` and `except StopIteration: break`: run()
\* returns
OnStopIteration == "returned"

\* a variant of the test of the match result that also takes 0 as a match
MatchedOrZero(val) == val <= 0

\* `if m < 0`: all lines matched
Matched(val) == val < 0

\* a variant that advances stream 1 after the callback
AfterDoSecond == 0 + 1

\* `m = 0` after the callback: stream 0 is the one to advance
AfterDo == 0

\* SimRead(*files, **kwargs)
Construct ==
    /\ pc = "new"
    /\ LET built == SimRead_init(cfg.n, cfg.opts)
       IN  IF \E i \in 1..cfg.n : built[i].exc # ""
           THEN LET k == CHOOSE i \in 1..cfg.n :
                           /\ built[i].exc # ""
                           /\ \A j \in 1..(i - 1) : built[j].exc = ""
                IN  /\ pc' = "raised"
                    /\ err' = Raised(built[k].exc, "klass")
                    /\ io' = [io EXCEPT !.opened = 1..(k - 1)]
                    /\ UNCHANGED readers
           ELSE /\ pc' = "built"
                /\ readers' = [i \in 1..cfg.n |-> built[i].rd]
                /\ io' = [io EXCEPT !.opened = 1..cfg.n]
                /\ UNCHANGED err
    /\ UNCHANGED <<fs, cfg, writer, lines, m, calls, obs>>

\* run(), up to the loop: the check of self.do, then the first row of every
\* stream, fetched in order
RunStart ==
    /\ pc = "built"
    /\ IF DoMissing(cfg)
       THEN /\ pc' = "raised"
            /\ err' = Raised("AttributeError", "do")
            /\ UNCHANGED <<readers, lines, obs>>
       ELSE LET got  == [i \in 1..cfg.n |-> next(readers[i], fs[i])]
                bad  == {i \in 1..cfg.n : got[i].exc # ""}
                k    == IF bad = {} THEN cfg.n
                        ELSE CHOOSE i \in bad : \A j \in bad : i <= j
            IN  /\ readers' = [i \in 1..cfg.n |->
                                 IF i <= k THEN got[i].rd ELSE readers[i]]
                /\ IF bad = {}
                   THEN /\ pc' = "loop"
                        /\ lines' = [i \in 1..cfg.n |-> got[i].row]
                        /\ obs' = [obs EXCEPT !.nfetch = k]
                        /\ UNCHANGED err
                   ELSE IF got[k].exc = "StopIteration"
                   THEN /\ pc' = OnStopIteration
                        /\ obs' = [obs EXCEPT !.nfetch = k, !.stopped = TRUE]
                        /\ UNCHANGED <<lines, err>>
                   ELSE /\ pc' = "raised"
                        /\ err' = Raised(got[k].exc, "converter")
                        /\ obs' = [obs EXCEPT !.nfetch = k]
                        /\ UNCHANGED lines
    /\ UNCHANGED <<fs, io, cfg, writer, m, calls>>

\* the head of the loop: all(lines), then m = self.match(*lines)
Match ==
    /\ pc = "loop"
    /\ IF \E i \in 1..cfg.n : ~Truthy(lines[i])
       THEN /\ pc' = "returned"
            /\ UNCHANGED <<m, err, obs>>
       ELSE \E r \in CASE cfg.match = "default" -> {defaultMatch(lines)}
                       [] cfg.match = "compare" -> {compareMatch(lines, cfg.reverse)}
                       [] OTHER -> [exc : {""}, val : MatchResults(cfg.n)]
                                   \cup [exc : UserExc, val : {0}] :
               IF r.exc # ""
               THEN /\ pc' = "raised"
                    /\ err' = Reraise(r.exc, "match", "MATCH", lines)
                    /\ obs' = [obs EXCEPT !.nmatch = @ + 1, !.matchArgs = lines,
                                          !.thrown = r.exc, !.thrownIn = "MATCH"]
                    /\ UNCHANGED m
               ELSE /\ m' = r.val
                    /\ pc' = IF Matched(r.val) THEN "do" ELSE "advance"
                    /\ obs' = [obs EXCEPT !.nmatch = @ + 1, !.matchArgs = lines,
                                          !.matchRes = r.val]
                    /\ UNCHANGED err
    /\ UNCHANGED <<fs, io, cfg, readers, writer, lines, calls>>

\* m < 0: self.do(*lines), then m = 0
Do ==
    /\ pc = "do"
    /\ calls' = IF cfg.match # "custom" THEN Append(calls, lines) ELSE calls
    /\ \E e \in {""} \cup UserExc :
          IF e # ""
          THEN /\ pc' = "raised"
               /\ err' = Reraise(e, "do", "DO", lines)
               /\ obs' = [obs EXCEPT !.ncalls = @ + 1, !.doArgs = lines,
                                     !.thrown = e, !.thrownIn = "DO"]
               /\ UNCHANGED m
          ELSE /\ pc' = "advance"
               /\ m' = AfterDo
               /\ obs' = [obs EXCEPT !.ncalls = @ + 1, !.doArgs = lines]
               /\ UNCHANGED err
    /\ UNCHANGED <<fs, io, cfg, readers, writer, lines>>

\* lines[m] = next(self.readers[m]); StopIteration breaks the loop
Advance ==
    /\ pc = "advance"
    /\ IF m + 1 > cfg.n
       THEN /\ pc' = "raised"
            /\ err' = Raised("IndexError", "list index out of range")
            /\ UNCHANGED <<readers, lines, obs>>
       ELSE LET r == next(readers[m + 1], fs[m + 1])
            IN  /\ readers' = [readers EXCEPT ![m + 1] = r.rd]
                /\ IF r.exc = ""
                   THEN /\ pc' = "loop"
                        /\ lines' = [lines EXCEPT ![m + 1] = r.row]
                        /\ obs' = [obs EXCEPT !.nfetch = @ + 1]
                        /\ UNCHANGED err
                   ELSE IF r.exc = "StopIteration"
                   THEN /\ pc' = OnStopIteration
                        /\ obs' = [obs EXCEPT !.nfetch = @ + 1, !.stopped = TRUE]
                        /\ UNCHANGED <<lines, err>>
                   ELSE /\ pc' = "raised"
                        /\ err' = Raised(r.exc, "converter")
                        /\ obs' = [obs EXCEPT !.nfetch = @ + 1]
                        /\ UNCHANGED lines
    /\ UNCHANGED <<fs, io, cfg, writer, m, calls>>

-----------------------------------------------------------------------------
(* The input files of a scan *)

\* the elements of a set of integers, ascending
RECURSIVE Ascending(_)
Ascending(S) ==
    IF S = {} THEN <<>>
    ELSE LET x == CHOOSE x \in S : \A y \in S : x <= y
         IN  <<x>> \o Ascending(S \ {x})

\* the line of key k in file i: the key, a tab, a letter naming the file; a
\* row with an even key has a comment line before it
DataLine(k, i) ==
    (IF k % 2 = 0 THEN <<"#", "c", NL>> ELSE <<>>)
    \o IntToStr(k) \o <<TAB, LowerCase[i], NL>>

RECURSIVE DataLines(_, _)
DataLines(keys, i) ==
    IF keys = <<>> THEN <<>>
    ELSE DataLine(keys[1], i) \o DataLines(Tail(keys), i)

\* a file: a header line that starts with the comment prefix, then the rows
FileText(keys, i) == <<"#", "k", TAB, "v", NL>> \o DataLines(keys, i)

\* the key sequences of a stream: every ascending sequence where the keys
\* decide the scan (the default match over list rows, with a callback); where
\* they do not (a caller's match function, a scan that raises at once), 1..k
KeySeqs(scan) ==
    IF scan.match = "default" /\ scan.opts.ftype # <<>> /\ scan.do # "none"
    THEN {Ascending(S) : S \in SUBSET (1..MaxKey)}
    ELSE {Ascending(1..k) : k \in 0..MaxKey}

RECURSIVE TotalLen(_)
TotalLen(ks) == IF ks = <<>> THEN 0 ELSE Len(ks[1]) + TotalLen(Tail(ks))

StreamCounts == 2..MaxStreams

Nometa == <<"n", "o", "m", "e", "t", "a">>

\* the scans: the default match over list rows (ftype nometa) and over
\* Records (no ftype), a caller's match over list rows; with and without `do`
Scans ==
    { [match |-> x[1], opts |-> [DefaultOpts EXCEPT !.ftype = x[2]], do |-> d, n |-> n] :
        x \in {<<"default", Nometa>>, <<"default", <<>> >>, <<"custom", Nometa>>},
        d \in {"cb", "none"},
        n \in StreamCounts }

Init ==
    /\ cfg \in Scans
    /\ \E ks \in [1..cfg.n -> KeySeqs(cfg)] :
          /\ TotalLen(ks) <= MaxRows
          /\ fs = [i \in 1..cfg.n |-> FileText(ks[i], i)]
    /\ io = [opened |-> {}, created |-> {}]
    /\ readers = <<>>
    /\ writer = <<>>
    /\ lines = <<>>
    /\ m = 0
    /\ pc = "new"
    /\ err = NoErr
    /\ calls = <<>>
    /\ obs = NoObs

Next ==
    \/ Construct
    \/ RunStart
    \/ Match
    \/ Do
    \/ Advance

Spec == Init /\ [][Next]_vars

-----------------------------------------------------------------------------
(* Properties of SimRead, checked under Spec *)

\* the scan object exists: its Readers have been built
Built == pc \notin {"new"} /\ readers # <<>>

\* the rows stream i holds: what its Reader yields from the checkpoint on
StreamRows(i) == dump(rewind(readers[i]), fs[i])

\* the first field of a row: element 0 of a list, the first column of a Record
KeyOf(row) == IF row.t = "list" THEN row.v[1] ELSE row.v[1].v.s

StreamKeys(i) == [j \in 1..Len(StreamRows(i)) |-> KeyOf(StreamRows(i)[j])]

StrictlyAscending(keys) ==
    \A i, j \in 1..Len(keys) : i < j => StrLess(keys[i], keys[j])

InStream(k, i) == \E j \in 1..Len(StreamKeys(i)) : StreamKeys(i)[j] = k

RowOfKey(k, i) ==
    StreamRows(i)[CHOOSE j \in 1..Len(StreamRows(i)) : KeyOf(StreamRows(i)[j]) = k]

InAllStreams(row) == \A i \in 1..cfg.n : InStream(KeyOf(row), i)

\* one callback per key found in every stream, in the order of stream 0, each
\* with the row of that key from every stream
JoinOfStreams ==
    LET common == SelectSeq(StreamRows(1), InAllStreams)
    IN  [c \in 1..Len(common) |->
            [i \in 1..cfg.n |-> RowOfKey(KeyOf(common[c]), i)]]

\* the scan has ended and no callback has raised
ScanOver == pc = "returned" \/ (pc = "raised" /\ obs.thrownIn # "DO")

\* C1: with the default match over streams whose first-field keys are strictly
\* ascending, the callback is invoked exactly once for every key that occurs in
\* all streams, in ascending key order, with every stream's row of that key,
\* and never for a key missing from some stream.
C1_DefaultMatchJoins ==
    ( /\ Built
      /\ cfg.match = "default"
      /\ cfg.do # "none"
      /\ ScanOver
      /\ \A i \in 1..cfg.n : StrictlyAscending(StreamKeys(i)) )
    => calls = JoinOfStreams

\* The same over Readers that yield list rows (ftype nometa), the rows that
\* _defaultMatch can index.
JoinOverListRows ==
    ( /\ Built
      /\ cfg.match = "default"
      /\ cfg.opts.ftype = Nometa
      /\ cfg.do # "none"
      /\ ScanOver
      /\ \A i \in 1..cfg.n : StrictlyAscending(StreamKeys(i)) )
    => calls = JoinOfStreams

JoinOverListRowsReached ==
    /\ pc = "returned"
    /\ cfg.opts.ftype = Nometa
    /\ cfg.n = 2
    /\ Len(calls) = 2
    /\ Len(StreamRows(1)) = 3
    /\ Len(StreamRows(2)) = 2

\* C2: the callback is invoked if and only if the match function, applied to
\* the current line of every stream, has just returned a negative value, and
\* it receives exactly those lines; with the default match all streams' first
\* fields are then equal.
C2_CallbackIffNegativeMatch ==
    [][ /\ (obs'.ncalls # obs.ncalls) =>
              /\ pc = "do"
              /\ m < 0
              /\ obs.matchRes = m
              /\ obs.matchArgs = lines
              /\ obs'.ncalls = obs.ncalls + 1
              /\ obs'.doArgs = lines
              /\ cfg.match = "default" =>
                    \A i, j \in 1..cfg.n : KeyOf(lines[i]) = KeyOf(lines[j])
        /\ (obs'.nmatch # obs.nmatch /\ pc' # "raised") =>
              /\ obs'.matchArgs = lines
              /\ (m' < 0) <=> (pc' = "do")
        /\ (pc = "do") => (obs'.ncalls = obs.ncalls + 1)
      ]_vars

C2_Reached ==
    /\ obs.ncalls > 0
    /\ obs.nmatch > obs.ncalls + 1
    /\ cfg.match = "custom"
    /\ pc = "advance"
    /\ m > 0

\* C3: as soon as one stream has no further record (at the initial fetch, or
\* when the stream chosen for advancing is exhausted) the scan stops: run
\* returns without raising, and no match, callback or read follows.
C3_ExhaustedStreamEndsScan ==
    [][ /\ obs'.stopped => (pc' = "returned" /\ err' = NoErr)
        /\ obs.stopped => UNCHANGED vars
        /\ (pc = "built" /\ cfg.do # "none"
              /\ \E i \in 1..cfg.n : StreamRows(i) = <<>>) => obs'.stopped
        /\ (pc = "advance" /\ m < cfg.n
              /\ dump(readers[m + 1], fs[m + 1]) = <<>>) => obs'.stopped
      ]_vars

C3_Reached ==
    /\ obs.stopped
    /\ pc = "returned"
    /\ obs.nmatch > 0
    /\ \E i \in 1..cfg.n : dump(readers[i], fs[i]) # <<>>

\* C4: after the callback returns normally, exactly stream 0 is advanced by
\* one record before the next match; the current lines and the read positions
\* of all other streams stay as they are, for any number of streams.
C4_OnlyStreamZeroAdvances ==
    [][ /\ (pc = "do" /\ pc' # "raised") =>
              /\ pc' = "advance"
              /\ m' = 0
              /\ lines' = lines
              /\ readers' = readers
        /\ (pc = "advance" /\ m = 0) =>
              /\ \A i \in 2..cfg.n : readers'[i] = readers[i]
              /\ pc' = "loop" => \A i \in 2..cfg.n : lines'[i] = lines[i]
              /\ LET rest == dump(readers[1], fs[1])
                 IN  IF rest = <<>>
                     THEN pc' = "returned" /\ lines' = lines
                     ELSE /\ pc' = "loop"
                          /\ lines'[1] = rest[1]
                          /\ dump(readers'[1], fs[1]) = Tail(rest)
      ]_vars

C4_Reached ==
    /\ pc = "loop"
    /\ cfg.n = 3
    /\ obs.ncalls > 0
    /\ obs.doArgs = obs.matchArgs
    /\ lines[1] # obs.doArgs[1]
    /\ lines[2] = obs.doArgs[2]
    /\ lines[3] = obs.doArgs[3]

\* the rows the default match was last called with, and their first fields
MatchedLists == \A i \in 1..cfg.n : obs.matchArgs[i].t = "list"
MatchKey(i) == obs.matchArgs[i].v[1]
AtMinimum(i) == \A j \in 1..cfg.n : ~StrLess(MatchKey(j), MatchKey(i))

\* C5 as stated: the default match returns a negative value when every
\* stream's first field equals the minimum, and otherwise the index of the
\* first stream whose first field does NOT equal the minimum.
C5_AsStated ==
    (cfg.match = "default" /\ obs.nmatch > 0 /\ MatchedLists) =>
        IF \A i \in 1..cfg.n : AtMinimum(i)
        THEN obs.matchRes < 0
        ELSE /\ obs.matchRes + 1 \in 1..cfg.n
             /\ ~AtMinimum(obs.matchRes + 1)
             /\ \A j \in 1..obs.matchRes : AtMinimum(j)

\* C5, amended: the default match takes element 0 of every row; it returns a
\* negative value when all of them equal their minimum, and otherwise the
\* index of the first stream whose element 0 EQUALS the minimum (the stream
\* that is behind); on Record rows, which have no element 0, it raises
\* KeyError.
C5_DefaultMatchNamesStreamBehind ==
    (cfg.match = "default" /\ obs.nmatch > 0) =>
        IF MatchedLists
        THEN /\ obs.thrownIn # "MATCH"
             /\ IF \A i \in 1..cfg.n : AtMinimum(i)
                THEN obs.matchRes < 0
                ELSE /\ obs.matchRes + 1 \in 1..cfg.n
                     /\ AtMinimum(obs.matchRes + 1)
                     /\ \A j \in 1..obs.matchRes : ~AtMinimum(j)
        ELSE /\ obs.thrownIn = "MATCH"
             /\ obs.thrown = "KeyError"
             /\ pc = "raised"

C5_Reached ==
    /\ cfg.match = "default"
    /\ cfg.n = 3
    /\ obs.nmatch > 0
    /\ MatchedLists
    /\ obs.matchRes = 2
    /\ MatchKey(1) = MatchKey(2)
    /\ pc = "advance"

\* C6 as stated: a SimRead without a callback fails at run() with a
\* configuration error before any I/O has been performed on the input files
\* and before the match function is ever invoked.
C6_AsStated ==
    (cfg.do = "none" /\ pc \notin {"new", "built"}) =>
        /\ pc = "raised"
        /\ err.type = "AttributeError"
        /\ io.opened = {}
        /\ obs.nmatch = 0

\* C6, amended: a SimRead without a callback fails at run() with
\* AttributeError before run() reads any record and before the match function
\* is ever invoked; the constructor has by then opened every input file (and
\* read from it to derive the schema), each Reader standing at its checkpoint.
C6_MissingCallbackFailsBeforeScan ==
    (cfg.do = "none" /\ pc \notin {"new", "built"}) =>
        /\ pc = "raised"
        /\ err.type = "AttributeError"
        /\ obs.nfetch = 0
        /\ obs.nmatch = 0
        /\ obs.ncalls = 0
        /\ lines = <<>>
        /\ io.opened = 1..cfg.n
        /\ \A i \in 1..cfg.n : readers[i].pos = readers[i].tell

C6_Reached ==
    /\ cfg.do = "none"
    /\ pc = "raised"
    /\ err.type = "AttributeError"
    /\ io.opened = 1..3
    /\ \E i \in 1..cfg.n : readers[i].tell > 0

\* C7: if the match function or the callback raises, run() raises an
\* exception of the same type whose message is the original message followed
\* by the current line of every stream; nothing is read or called after it.
C7_ErrorsReraisedSameType ==
    (pc = "raised" /\ obs.thrownIn \in {"MATCH", "DO"}) =>
        /\ err.type = obs.thrown
        /\ err.where = obs.thrownIn
        /\ err.lines = lines

\* a scan built with default options: no format tag, no column names
DefaultScan == cfg.opts = DefaultOpts

\* the schema autoMeta derives: COL1..COLn, no converters
AutoSchema(rd) ==
    \A j \in 1..Len(rd.meta) :
        rd.meta[j] = Col(<<"C", "O", "L">> \o IntToStr(j), "none")

\* C27: a SimRead built with default options has base Readers with
\* auto-derived COL1..COLn schemas that yield Records, and the default match
\* function, run on those Records, does not fail.
C27_DefaultMatchTakesRecords ==
    (Built /\ DefaultScan /\ cfg.match = "default" /\ obs.nmatch > 0) =>
        /\ \A i \in 1..cfg.n :
              /\ readers[i].cls = "Base"
              /\ AutoSchema(readers[i])
              /\ obs.matchArgs[i].t = "record"
        /\ obs.thrownIn # "MATCH"

\* what does hold of such a scan: the Readers and their rows are as described,
\* and the first call of the default match raises KeyError
DefaultMatchRaisesOnRecords ==
    (Built /\ DefaultScan /\ cfg.match = "default" /\ obs.nmatch > 0) =>
        /\ \A i \in 1..cfg.n :
              /\ readers[i].cls = "Base"
              /\ AutoSchema(readers[i])
              /\ Len(readers[i].meta) = 2
              /\ obs.matchArgs[i].t = "record"
        /\ obs.nmatch = 1
        /\ obs.ncalls = 0
        /\ pc = "raised"
        /\ err.type = "KeyError"

DefaultMatchRaisesOnRecordsReached ==
    /\ Built
    /\ DefaultScan
    /\ cfg.match = "default"
    /\ cfg.n = 3
    /\ obs.nmatch = 1
    /\ err.type = "KeyError"

\* the records streams 1..i hold in all, and those they still have ahead of
\* their read positions
RECURSIVE RecordsHeld(_)
RecordsHeld(i) == IF i = 0 THEN 0 ELSE Len(StreamRows(i)) + RecordsHeld(i - 1)

RECURSIVE RecordsLeft(_, _)
RecordsLeft(rds, i) ==
    IF i = 0 THEN 0 ELSE Len(dump(rds[i], fs[i])) + RecordsLeft(rds, i - 1)

\* run() is over
RunOver(p) == p \in {"returned", "raised"}

\* what is left of run() at the place p of the loop with the Readers rds:
\* three steps at most for every record still ahead
StepsLeft(p, rds) ==
    IF RunOver(p) THEN 0
    ELSE 3 * RecordsLeft(rds, cfg.n)
         + (CASE p = "loop" -> 3 [] p = "do" -> 2 [] p = "advance" -> 1)

\* C28: run() terminates on finite files whatever the match function returns
\* (a negative value or a stream index): the loop is entered with one record
\* of every stream consumed, every step of the loop brings run() nearer its
\* end, every iteration either ends the scan or consumes exactly
\* one record of exactly one stream (stream 0 after a match, the stream the
\* match function named otherwise), and the iterations never outnumber the
\* records of all streams.
C28_RunTerminates ==
    [][ /\ (pc = "built" /\ pc' = "loop") =>
              /\ ~obs'.stopped
              /\ RecordsLeft(readers', cfg.n) = RecordsHeld(cfg.n) - cfg.n
        /\ pc \in {"loop", "do", "advance"} =>
              /\ StepsLeft(pc', readers') < StepsLeft(pc, readers)
              /\ obs'.nmatch <= RecordsHeld(cfg.n)
        /\ (pc = "do" /\ ~RunOver(pc')) => (pc' = "advance" /\ m' = 0)
        /\ (pc = "loop" /\ pc' = "advance") => (m' = obs'.matchRes /\ m' \in 0..cfg.n)
        /\ (pc \in {"loop", "do"}) => (readers' = readers /\ lines' = lines)
        /\ (pc = "advance" /\ ~RunOver(pc')) =>
              /\ pc' = "loop"
              /\ obs'.nfetch = obs.nfetch + 1
              /\ RecordsLeft(readers', cfg.n) = RecordsLeft(readers, cfg.n) - 1
              /\ Len(dump(readers'[m + 1], fs[m + 1]))
                    = Len(dump(readers[m + 1], fs[m + 1])) - 1
              /\ \A i \in 1..cfg.n : i # m + 1 =>
                    (readers'[i] = readers[i] /\ lines'[i] = lines[i])
      ]_vars

\* a scan of three streams under a caller's match function that has ended
\* after four iterations, one of them a match
C28_Reached ==
    /\ pc = "returned"
    /\ cfg.match = "custom"
    /\ cfg.n = 3
    /\ obs.nmatch = 4
    /\ obs.ncalls = 1
    /\ RecordsHeld(cfg.n) = 6

-----------------------------------------------------------------------------
(* Scans over streams with repeated keys, under the default match function
   and under a match function built on SimRead.compare *)

MaxJoinKey == 2
MaxRepeat == 2

\* row j of a stream: its key, a tab, the number of the row
JoinLine(k, j) == IntToStr(k) \o <<TAB>> \o IntToStr(j) \o <<NL>>

RECURSIVE JoinLines(_, _)
JoinLines(keys, j) ==
    IF keys = <<>> THEN <<>>
    ELSE JoinLine(keys[1], j) \o JoinLines(Tail(keys), j + 1)

\* a file: a header line that starts with the comment prefix, then the rows
JoinText(keys) == <<"#", "k", TAB, "v", NL>> \o JoinLines(keys, 1)

\* the ascending key sequence in which key k occurs c[k] times
RECURSIVE RepeatKeys(_, _)
RepeatKeys(c, k) ==
    IF k > MaxJoinKey THEN <<>>
    ELSE [i \in 1..c[k] |-> k] \o RepeatKeys(c, k + 1)

\* a scan with a callback: the match function (the default one, or compare on
\* the first fields), the format tag broadcast to the Readers, the files
JoinScan(match, reverse, ftype, n) ==
    [match |-> match, reverse |-> reverse, opts |-> [DefaultOpts EXCEPT !.ftype = ftype],
     do |-> "cb", n |-> n]

InitJoin ==
    /\ \/ \E t \in {Nometa, <<>>}, n \in StreamCounts :
             cfg = JoinScan("default", FALSE, t, n)
       \/ \E t \in {Nometa, <<>>}, r \in BOOLEAN :
             cfg = JoinScan("compare", r, t, 2)
    /\ \E c \in [1..cfg.n -> [1..MaxJoinKey -> 0..MaxRepeat]] :
          LET ks == [i \in 1..cfg.n |-> RepeatKeys(c[i], 1)]
          IN  /\ TotalLen(ks) <= MaxRows
              /\ fs = [i \in 1..cfg.n |-> JoinText(ks[i])]
    /\ io = [opened |-> {}, created |-> {}]
    /\ readers = <<>>
    /\ writer = <<>>
    /\ lines = <<>>
    /\ m = 0
    /\ pc = "new"
    /\ err = NoErr
    /\ calls = <<>>
    /\ obs = NoObs

SpecJoin == InitJoin /\ [][Next]_vars

-----------------------------------------------------------------------------
(* Properties of scans over repeated keys, checked under SpecJoin *)

\* the first row of stream i that carries key k
FirstRowOfKey(k, i) ==
    StreamRows(i)[CHOOSE j \in 1..Len(StreamRows(i)) :
                    /\ KeyOf(StreamRows(i)[j]) = k
                    /\ \A h \in 1..(j - 1) : KeyOf(StreamRows(i)[h]) # k]

\* one callback for every row of stream 0 whose key is in every stream, in the
\* order of stream 0, each with the first row of that key of every other stream
RepeatedJoin ==
    LET common == SelectSeq(StreamRows(1), InAllStreams)
    IN  [c \in 1..Len(common) |->
            [i \in 1..cfg.n |->
                IF i = 1 THEN common[c] ELSE FirstRowOfKey(KeyOf(common[c]), i)]]

\* C29: with the default match over ascending streams that hold repeated
\* keys, the callback is invoked once for every stream-0 record whose key is
\* in all streams, each time with the first record of that key of every other
\* stream; the later records of that key in the other streams never reach it.
C29_RepeatedKeys ==
    (Built /\ cfg.match = "default" /\ ScanOver) => calls = RepeatedJoin

\* The same over Readers that yield list rows (ftype nometa), the rows that
\* _defaultMatch can index.
RepeatedKeysOverListRows ==
    (Built /\ cfg.match = "default" /\ cfg.opts.ftype = Nometa /\ ScanOver)
        => calls = RepeatedJoin

\* three streams, key 1 twice in the first and in the second: two callbacks,
\* both with the first row of the second stream
RepeatedKeysOverListRowsReached ==
    /\ pc = "returned"
    /\ cfg.match = "default"
    /\ cfg.opts.ftype = Nometa
    /\ cfg.n = 3
    /\ Len(calls) = 2
    /\ KeyOf(calls[1][1]) = KeyOf(calls[2][1])
    /\ calls[1][1] # calls[2][1]
    /\ calls[1][2] = calls[2][2]
    /\ Len(StreamRows(2)) >= 2
    /\ KeyOf(StreamRows(2)[2]) = KeyOf(StreamRows(2)[1])

\* what compare returns on the first fields a and b of the two rows
Compared(a, b, reverse) ==
    IF a = b THEN 0 - 1
    ELSE IF StrLess(a, b) = ~reverse THEN 0 ELSE 1

\* C30: compare(a, b) returns 0 when a < b, 1 when a > b and -1 when a = b
\* (with reverse set, 0 when a > b and 1 when a < b); so over two streams a
\* match function that is compare of the two first fields returns at every
\* step what the default match returns, and drives the same advances and
\* callbacks.
C30_CompareIsDefaultMatch ==
    (cfg.match = "compare" /\ obs.nmatch > 0) =>
        /\ obs.thrownIn # "MATCH"
        /\ obs.matchRes = Compared(KeyOf(obs.matchArgs[1]), KeyOf(obs.matchArgs[2]),
                                   cfg.reverse)
        /\ ~cfg.reverse =>
              defaultMatch(obs.matchArgs) = [exc |-> "", val |-> obs.matchRes]

\* compare returns what the claim says, and over list rows the match function
\* built on it returns at every step what the default match returns
CompareIsDefaultMatchOverListRows ==
    (cfg.match = "compare" /\ obs.nmatch > 0) =>
        /\ obs.thrownIn # "MATCH"
        /\ obs.matchRes = Compared(KeyOf(obs.matchArgs[1]), KeyOf(obs.matchArgs[2]),
                                   cfg.reverse)
        /\ (~cfg.reverse /\ MatchedLists) =>
              defaultMatch(obs.matchArgs) = [exc |-> "", val |-> obs.matchRes]

CompareIsDefaultMatchOverListRowsReached ==
    /\ cfg.match = "compare"
    /\ ~cfg.reverse
    /\ cfg.opts.ftype = Nometa
    /\ pc = "returned"
    /\ obs.nmatch = 4
    /\ obs.ncalls = 2
    /\ obs.matchRes = 1

-----------------------------------------------------------------------------
(* Opening, writing and reading one file through the entry points *)

MaxCols == 2
MaxWrites == 2

\* every spelling of a tag in upper and lower case letters
CaseVariants(t) ==
    { [i \in 1..Len(t) |-> IF i \in U THEN Upper(<<t[i]>>)[1] ELSE t[i]] :
        U \in SUBSET (1..Len(t)) }

\* the format tags that have a Reader class, and the name of the generic class
ReaderTags ==
    { <<"b", "e", "d">>, <<"b", "e", "d", "1", "2">>, <<"b", "e", "d", "p", "e">>,
      <<"b", "e", "d", "x">>, <<"h", "e", "a", "d">>, Nometa }
BaseTag == <<"b", "a", "s", "e">>

\* tags that name no class of the module
OtherTags == { <<"x", "y", "z">>, <<"b", "a", "m">> }

Tags == UNION { CaseVariants(t) : t \in ReaderTags \cup {BaseTag} \cup OtherTags }

\* the file a Reader is opened on directly, and what the output file held
\* before a Writer is opened on it
InFile == <<"#", "h", NL, "c", TAB, "1", TAB, "2", NL>>
OldOut == <<"o", "l", "d", NL>>
InPath == 1
OutPath == 2
GzPath == 3

\* the names of the three files
PathNames ==
    << <<"i", "n", ".", "t", "s", "v">>, <<"o", "u", "t", ".", "t", "s", "v">>,
       <<"o", "u", "t", ".", "t", "s", "v", ".", "g", "z">> >>

InitFiles == <<InFile, OldOut, OldOut>>

\* opening a Reader, or a Writer, on a format tag
Dispatch(k, t) == [kind |-> k, opts |-> [DefaultOpts EXCEPT !.ftype = t], record |-> <<>>]

ColNames == [i \in 1..MaxCols |-> <<UpperCase[i]>>]
Converters == {"none", "int"}
Schemas ==
    UNION { { [i \in 1..n |-> Col(ColNames[i], c[i])] : c \in [1..n -> Converters] } :
              n \in 1..MaxCols }

\* the values a record holds: strings (empty, plain, starting with the comment
\* mark, holding a tab, a comma, a newline, digits) and integers
Values ==
    { StrVal(<<>>), StrVal(<<"a">>), StrVal(<<"#", "a">>), StrVal(<<"a", TAB, "b">>),
      StrVal(<<"a", ",", "b">>), StrVal(<<"a", NL, "b">>), StrVal(<<"1", "2">>),
      IntVal(7), IntVal(0 - 3) }

Delimiters == { <<TAB>>, <<",">>, <<"-">> }
Comments == { <<"#">>, <<>> }

\* writing one Record with a Writer whose schema is S and reading the file
\* back with a Reader of the same schema and delimiter
RoundTrip(S, v, d, c) ==
    [kind   |-> "roundtrip",
     opts   |-> [DefaultOpts EXCEPT !.cnames = S, !.delimit = d, !.comment = c],
     record |-> [i \in 1..Len(S) |-> [k |-> S[i].k, v |-> v[i]]]]

ColA == <<"A">>
ColB == <<"B">>

\* a value of a record, or the mark of a key the record lacks
NoVal == [t |-> "none", s |-> <<>>, i |-> 0]
WriteValues == { StrVal(<<"a">>), IntVal(7), NoVal }

ColC == <<"C">>

\* the records given to write: each of the keys C, B, A held or lacking
WriteRecords ==
    { SelectSeq(<<[k |-> ColC, v |-> v[3]], [k |-> ColB, v |-> v[2]],
                  [k |-> ColA, v |-> v[1]]>>,
                LAMBDA e : e.v # NoVal) :
        v \in [1..3 -> WriteValues] }

WriteSchemas ==
    { <<>>, <<Col(ColA, "none")>>, <<Col(ColA, "none"), Col(ColB, "int")>>,
      <<Col(ColB, "none"), Col(ColA, "none")>> }

\* writing one record, up to MaxWrites times, with a Writer of schema S
WriteRun(S, d, r) ==
    [kind |-> "write", opts |-> [DefaultOpts EXCEPT !.cnames = S, !.delimit = d],
     record |-> r]

\* the arguments of writeHead: the prefix, the header delimiter (None, one
\* that differs from both body delimiters, the empty str) and the transform
\* (None, a function of the keys, a dict that holds a function for A, a dict
\* that holds a str for A and a function for a name outside the schema, {})
Transforms ==
    { NoTransform, Bulk("lower"), Bulk("reversed"),
      PerKey(<<[k |-> ColA, v |-> "lower"]>>),
      PerKey(<<[k |-> ColA, v |-> "x"], [k |-> ColC, v |-> "lower"]>>),
      PerKey(<<>>) }

Heads ==
    [prefix : {<<>>, <<"#">>}, delimit : {NotGiven, Given(<<";">>), Given(<<>>)},
     transform : Transforms]

\* one call of writeHead on a Writer of schema S opened on format tag t
HeadRun(t, S, d, h) ==
    [kind |-> "head", opts |-> [DefaultOpts EXCEPT !.ftype = t, !.cnames = S, !.delimit = d],
     record |-> <<>>, head |-> h]

\* a record over the six BED columns
BedRecord ==
    << [k |-> <<"C", "H", "R">>, v |-> StrVal(<<"c", "1">>)],
       [k |-> <<"S", "T", "A", "R", "T">>, v |-> IntVal(1)],
       [k |-> <<"E", "N", "D">>, v |-> IntVal(7)],
       [k |-> NAME, v |-> StrVal(<<"a">>)],
       [k |-> SCORE, v |-> IntVal(0)],
       [k |-> STRAND, v |-> StrVal(<<"+">>)] >>

\* calls of writeHead and of write(BedRecord), up to MaxWrites of the latter,
\* on a BED Writer opened with delimiter d
BedRun(d, h) ==
    [kind |-> "bed", opts |-> [DefaultOpts EXCEPT !.ftype = <<"b", "e", "d">>, !.delimit = d],
     record |-> BedRecord, head |-> h]

\* the same through a file whose name ends in '.gz'
GzipTrip(S, v) == [RoundTrip(S, v, <<TAB>>, <<"#">>) EXCEPT !.kind = "gzip"]

\* the file a Writer is opened on
OutOf(c) == IF c.kind = "gzip" THEN GzPath ELSE OutPath

InitTsv ==
    /\ \/ \E k \in {"reader", "writer"}, t \in Tags : cfg = Dispatch(k, t)
       \/ \E S \in Schemas, d \in Delimiters, c \in Comments :
             \E v \in [1..Len(S) -> Values] : cfg = RoundTrip(S, v, d, c)
       \/ \E S \in WriteSchemas, d \in {<<TAB>>, <<",">>}, r \in WriteRecords :
             cfg = WriteRun(S, d, r)
       \/ \E S \in Schemas : \E v \in [1..Len(S) -> Values] : cfg = GzipTrip(S, v)
       \/ \E t \in {<<>>, Nometa}, S \in WriteSchemas, d \in {<<TAB>>, <<",">>}, h \in Heads :
             cfg = HeadRun(t, S, d, h)
       \/ \E d \in {<<TAB>>, <<",">>}, h \in Heads : cfg = BedRun(d, h)
    /\ fs = InitFiles
    /\ io = [opened |-> {}, created |-> {}]
    /\ readers = <<>>
    /\ writer = <<>>
    /\ lines = <<>>
    /\ m = 0
    /\ pc = "new"
    /\ err = NoErr
    /\ calls = <<>>
    /\ obs = NoObs

\* TsvWriter(outfile, **outopts)
OpenWriter ==
    /\ pc = "new"
    /\ cfg.kind \in {"writer", "roundtrip", "write", "gzip", "head", "bed"}
    /\ LET w == TsvWriter(OutOf(cfg), cfg.opts)
       IN  IF w.exc # ""
           THEN /\ pc' = "raised"
                /\ err' = Raised(w.exc, TsvWriterName \o Capitalize(cfg.opts.ftype))
                /\ UNCHANGED <<fs, io, writer>>
           ELSE /\ pc' = "wopen"
                /\ writer' = w.wr
                /\ fs' = [fs EXCEPT ![OutOf(cfg)] = <<>>]
                /\ io' = [io EXCEPT !.created = @ \cup {OutOf(cfg)}]
                /\ err' = err
    /\ UNCHANGED <<cfg, readers, lines, m, calls, obs>>

\* writer.write(record): what it writes goes to the file object's buffer
Write ==
    /\ \/ pc = "wopen" /\ cfg.kind \in {"roundtrip", "write", "gzip", "bed"}
       \/ pc = "written" /\ cfg.kind \in {"write", "bed"} /\ Len(calls) < MaxWrites
       \/ pc = "headed" /\ cfg.kind = "bed" /\ Len(calls) < MaxWrites
    /\ LET w == TsvWriterBase_write(writer, cfg.record)
       IN  /\ writer' = [writer EXCEPT !.buf = @ \o w.text]
           /\ IF w.exc # ""
              THEN /\ pc' = "raised"
                   /\ err' = Raised(w.exc, <<>>)
              ELSE /\ pc' = "written"
                   /\ err' = err
    /\ calls' = Append(calls, cfg.record)
    /\ UNCHANGED <<fs, io, cfg, readers, lines, m, obs>>

\* writer.writeHead(prefix, delimit, transform), once the Writer is open and
\* after every record written
WriteHead ==
    /\ pc \in {"wopen", "written"}
    /\ cfg.kind \in {"head", "bed"}
    /\ pc' = "headed"
    /\ writer' = [writer EXCEPT !.buf = @ \o writeHead(writer, cfg.head)]
    /\ UNCHANGED <<fs, io, cfg, readers, lines, m, err, calls, obs>>

\* writer.close(): what was written reaches the file
Close ==
    /\ \/ pc \in {"written", "headed"}
       \/ pc = "wopen" /\ cfg.kind = "writer"
    /\ pc' = "closed"
    /\ fs' = [fs EXCEPT ![writer.fi] =
                         @ \o WriteThrough(WriterOpenFunc(PathNames[writer.fi]), writer.buf)]
    /\ writer' = [writer EXCEPT !.buf = <<>>]
    /\ UNCHANGED <<io, cfg, readers, lines, m, err, calls, obs>>

\* TsvReader(infile, **inopts); the Readers opened on the '.gz' file are base
\* Readers with skip = 0, whose constructor reads nothing
OpenReader ==
    /\ \/ pc = "new" /\ cfg.kind = "reader"
       \/ pc = "closed" /\ cfg.kind \in {"roundtrip", "gzip"}
    /\ LET fi == IF cfg.kind = "reader" THEN InPath ELSE OutOf(cfg)
           r  == TsvReader(fi, ReadThrough(ReaderOpenFunc(PathNames[fi]), fs[fi]).text,
                           cfg.opts)
       IN  IF r.exc # ""
           THEN /\ pc' = "raised"
                /\ err' = Raised(r.exc, TsvReaderName \o Capitalize(cfg.opts.ftype))
                /\ UNCHANGED <<io, readers>>
           ELSE /\ pc' = "ropen"
                /\ readers' = <<r.rd>>
                /\ io' = [io EXCEPT !.opened = @ \cup {fi}]
                /\ err' = err
    /\ UNCHANGED <<fs, cfg, writer, lines, m, calls, obs>>

\* next(reader)
Read ==
    /\ pc = "ropen"
    /\ cfg.kind \in {"roundtrip", "gzip"}
    /\ LET fi == readers[1].fi
           f  == ReadThrough(ReaderOpenFunc(PathNames[fi]), fs[fi])
           r  == IF f.exc # "" THEN [exc |-> f.exc, rd |-> readers[1], row |-> NoRow]
                 ELSE next(readers[1], f.text)
       IN  /\ readers' = <<r.rd>>
           /\ IF r.exc # ""
              THEN /\ pc' = "raised"
                   /\ err' = Raised(r.exc, <<>>)
                   /\ lines' = lines
              ELSE /\ pc' = "read"
                   /\ lines' = <<r.row>>
                   /\ err' = err
    /\ UNCHANGED <<fs, io, cfg, writer, m, calls, obs>>

NextTsv ==
    \/ OpenWriter
    \/ WriteHead
    \/ Write
    \/ Close
    \/ OpenReader
    \/ Read

SpecTsv == InitTsv /\ [][NextTsv]_vars

-----------------------------------------------------------------------------
(* Properties of the entry points and of the round trip, checked under SpecTsv *)

Dispatched == cfg.kind \in {"reader", "writer"} /\ pc # "new"

\* the tag of the request, in lower case
Tag == Lower(cfg.opts.ftype)

NoSuch == IF cfg.kind = "reader" THEN "NoSuchReader" ELSE "NoSuchWriter"

\* nothing has been opened, created or emptied, and no object exists
NoIO ==
    /\ io = [opened |-> {}, created |-> {}]
    /\ fs = InitFiles
    /\ readers = <<>>
    /\ writer = <<>>

\* C8: a request for a Reader or a Writer whose format tag names no registered
\* format raises NoSuchReader, respectively NoSuchWriter, and no file has been
\* opened, read, created or emptied by then
C8_UnknownFormatFailsBeforeIO ==
    (Dispatched /\ Tag \notin ReaderTags \cup {BaseTag})
        => (pc = "raised" /\ err.type = NoSuch /\ NoIO)

C8_Reached ==
    /\ Dispatched
    /\ cfg.kind = "writer"
    /\ cfg.opts.ftype = <<"x", "Y", "z">>
    /\ pc = "raised"
    /\ err.type = "NoSuchWriter"
    /\ fs[OutPath] = OldOut

\* C9 as stated: each of bed, bed12, bedpe, bedx, head and nometa, in any
\* letter case, is accepted by the Reader and by the Writer entry point, and
\* only tags outside that set fail
C9_AsStated ==
    Dispatched =>
        /\ Tag \in ReaderTags => pc # "raised"
        /\ Tag \notin ReaderTags \cup {BaseTag} => pc = "raised"

\* the name of a class of the module, as text
ClsText(c) ==
    CASE c = "Base" -> ClsBase [] c = "Bed" -> ClsBed [] c = "Bed12" -> ClsBed12
      [] c = "Bedpe" -> ClsBedpe [] c = "Bedx" -> ClsBedx [] c = "Head" -> ClsHead
      [] c = "Nometa" -> ClsNometa

\* the tags the Writer entry point accepts
WriterTags == { <<"b", "e", "d">>, Nometa }

Accepted == IF cfg.kind = "reader" THEN ReaderTags \cup {BaseTag}
            ELSE WriterTags \cup {BaseTag}

\* C9: tags are resolved whatever their letter case; the Reader entry point
\* accepts bed, bed12, bedpe, bedx, head and nometa (and base) and builds the
\* class of that name; the Writer entry point accepts bed and nometa (and
\* base) only; every other tag fails with the no-such-reader/writer error
\* that names the normalised class
C9_TagsResolvedCaseNormalized ==
    Dispatched =>
        /\ Tag \in Accepted =>
              /\ pc # "raised"
              /\ IF cfg.kind = "reader"
                 THEN ClsText(readers[1].cls) \in CaseVariants(Tag)
                 ELSE ClsText(writer.cls) \in CaseVariants(Tag)
        /\ Tag \notin Accepted =>
              /\ pc = "raised"
              /\ err.type = NoSuch
              /\ Lower(err.orig) =
                    Lower(IF cfg.kind = "reader" THEN TsvReaderName ELSE TsvWriterName)
                        \o Tag

C9_Reached ==
    /\ Dispatched
    /\ cfg.kind = "reader"
    /\ cfg.opts.ftype = <<"b", "E", "D", "p", "E">>
    /\ pc = "ropen"
    /\ readers[1].cls = "Bedpe"

\* the Writer entry point refuses a tag the Reader entry point accepts
C9_WriterRefusesHead ==
    /\ Dispatched
    /\ cfg.kind = "writer"
    /\ Tag = <<"h", "e", "a", "d">>
    /\ pc = "raised"
    /\ err.type = "NoSuchWriter"

\* a record has been written, the file closed, and a read attempted
RoundTripDone ==
    /\ cfg.kind = "roundtrip"
    /\ readers # <<>>
    /\ pc \in {"read", "raised"}

ReadBack == pc = "read" /\ lines = <<RecordRow(cfg.record)>>

\* C10 as stated: for any schema and any record over its keys, the line
\* written is read back as a Record equal to the record field by field
C10_AsStated == RoundTripDone => ReadBack

Schema == cfg.opts.cnames

\* the line the record is written as, without its newline
WrittenLine ==
    Join(cfg.opts.delimit, [i \in 1..Len(cfg.record) |-> Str(cfg.record[i].v)])

Contains(s, c) == \E i \in 1..Len(s) : s[i] = c

\* each value is of its converter's type, its text holds neither the
\* delimiter nor a newline, and the line is neither empty nor a comment
RoundTripPre ==
    /\ \A i \in 1..Len(Schema) :
          /\ cfg.record[i].v.t = (IF Schema[i].c = "int" THEN "int" ELSE "str")
          /\ ~Contains(Str(cfg.record[i].v), cfg.opts.delimit[1])
          /\ ~Contains(Str(cfg.record[i].v), NL)
    /\ WrittenLine # <<>>
    /\ ~(cfg.opts.comment # <<>> /\ StartsWith(WrittenLine, cfg.opts.comment))

\* C10: when every value is an int under an int column and a str under a
\* plain column, no value's text holds the one-character delimiter or a
\* newline, and the written line is not empty and does not start with the
\* Reader's comment prefix, the line written is read back as a Record equal
\* to the record field by field
C10_RoundTrip == (RoundTripDone /\ RoundTripPre) => ReadBack

C10_Reached ==
    /\ RoundTripDone
    /\ RoundTripPre
    /\ ReadBack
    /\ Len(Schema) = 2
    /\ cfg.opts.delimit = <<",">>
    /\ cfg.record[1].v = IntVal(0 - 3)
    /\ cfg.record[2].v = StrVal(<<"a", TAB, "b">>)

\* the values the record holds for the keys of the schema, as text
WrittenValues ==
    [i \in 1..Len(Schema) |->
        Str(cfg.record[CHOOSE j \in 1..Len(cfg.record) :
                          cfg.record[j].k = Schema[i].k].v)]

HoldsSchemaKeys ==
    \A i \in 1..Len(Schema) : \E j \in 1..Len(cfg.record) : cfg.record[j].k = Schema[i].k

\* C20: write(record) appends exactly one line: the values the record holds
\* for the schema's keys, as text, in schema order, joined by the delimiter
\* and ended by a newline; when the record lacks a schema key it raises
\* KeyError and appends nothing
C20_WriteAppendsOneLine ==
    [][ (Write /\ writer.meta = Schema) =>
          /\ fs' = fs
          /\ IF HoldsSchemaKeys
             THEN /\ err' = NoErr
                  /\ writer'.buf =
                        writer.buf \o Join(cfg.opts.delimit, WrittenValues) \o <<NL>>
             ELSE /\ err'.type = "KeyError"
                  /\ writer'.buf = writer.buf ]_vars

C20_Reached ==
    /\ cfg.kind = "write"
    /\ pc = "written"
    /\ Len(calls) = 2
    /\ Schema = <<Col(ColB, "none"), Col(ColA, "none")>>
    /\ Len(cfg.record) = 3
    /\ writer.buf = <<"7", ",", "a", NL, "7", ",", "a", NL>>

\* a record that lacks a key of the schema is refused
WriteRefused ==
    /\ cfg.kind = "write"
    /\ pc = "raised"
    /\ err.type = "KeyError"
    /\ Len(Schema) = 2
    /\ \E j \in 1..Len(cfg.record) : cfg.record[j].k = Schema[1].k
    /\ writer.buf = <<>>

\* a Writer has been opened on the '.gz' file, has written the record and has
\* been closed
GzClosed == cfg.kind = "gzip" /\ pc \notin {"new", "wopen", "written"}

\* and a Reader opened on the same file has attempted a read
GzipTripDone == GzClosed /\ readers # <<>> /\ pc \in {"read", "raised"}

\* C21: a Writer whose path ends in '.gz' writes gzip-compressed output, as
\* the Reader decompresses by the same suffix rule: the line written through
\* a Writer to the '.gz' path is read back by a Reader opened on that path
C21_GzipByExtension ==
    /\ GzClosed => fs[GzPath] = WriteThrough("gzip.open", WrittenLine \o <<NL>>)
    /\ (GzipTripDone /\ RoundTripPre) => ReadBack

\* what the code does: the Writer leaves plain text in the '.gz' file, and the
\* first read of the Reader, which opens it with gzip.open, raises IOError
GzipWriterWritesPlainText ==
    /\ GzClosed => fs[GzPath] = WrittenLine \o <<NL>>
    /\ GzipTripDone => (pc = "raised" /\ err.type = "IOError" /\ lines = <<>>)

GzipWriterWritesPlainTextReached ==
    /\ GzipTripDone
    /\ RoundTripPre
    /\ Len(Schema) = 2
    /\ fs[GzPath] = <<"7", TAB, "a", NL>>
    /\ err.type = "IOError"

\* the generic Writer whose schema is set to the six BED columns, constructed
\* with the delimiter of the request
GenericBed ==
    TsvWriter(OutPath, [DefaultOpts EXCEPT !.delimit = cfg.opts.delimit,
                                           !.cnames = BedMETA]).wr

\* C22: the BED Writer has the contract of the generic Writer whose schema
\* was set to the six BED columns: for every construction delimiter it holds
\* that schema once constructed, and every call of writeHead and of write
\* appends what the same call appends on the generic Writer
C22_BedWriterIsGenericWriter ==
    [][ cfg.kind = "bed" =>
          /\ OpenWriter => writer'.meta = GenericBed.meta
          /\ WriteHead => writer'.buf = writer.buf \o writeHead(GenericBed, cfg.head)
          /\ Write => writer'.buf =
                         writer.buf \o TsvWriterBase_write(GenericBed, cfg.record).text
      ]_vars

\* the same for BED Writers constructed with the default delimiter, the tab
BedWriterIsGenericWriterOverTabs ==
    [][ (cfg.kind = "bed" /\ cfg.opts.delimit = <<TAB>>) =>
          /\ OpenWriter => writer'.meta = GenericBed.meta
          /\ WriteHead => writer'.buf = writer.buf \o writeHead(GenericBed, cfg.head)
          /\ Write => writer'.buf =
                         writer.buf \o TsvWriterBase_write(GenericBed, cfg.record).text
      ]_vars

BedWriterIsGenericWriterOverTabsReached ==
    /\ cfg.kind = "bed"
    /\ cfg.opts.delimit = <<TAB>>
    /\ cfg.head = [prefix |-> <<"#">>, delimit |-> NotGiven, transform |-> Bulk("lower")]
    /\ pc = "closed"
    /\ Len(calls) = 1
    /\ fs[OutPath] =
          <<"#", "c", "h", "r", TAB, "s", "t", "a", "r", "t", TAB, "e", "n", "d", TAB,
            "n", "a", "m", "e", TAB, "s", "c", "o", "r", "e", TAB,
            "s", "t", "r", "a", "n", "d", NL,
            "c", "1", TAB, "1", TAB, "7", TAB, "a", TAB, "0", TAB, "+", NL>>

\* a BED Writer constructed with a comma writes tabs
BedWriterIgnoresDelimiter ==
    /\ cfg.kind = "bed"
    /\ cfg.opts.delimit = <<",">>
    /\ pc = "written"
    /\ writer.buf = <<"c", "1", TAB, "1", TAB, "7", TAB, "a", TAB, "0", TAB, "+", NL>>

\* the keys of the Writer's schema
WriterKeys == [i \in 1..Len(writer.meta) |-> writer.meta[i].k]

\* the header line for the header delimiter hd
WrittenHead(hd) ==
    cfg.head.prefix \o Join(hd, Transformed(WriterKeys, cfg.head.transform)) \o <<NL>>

\* C23: writeHead appends exactly one line: the prefix, then the schema's key
\* names in schema order after the bulk or per-key transform, joined by the
\* header delimiter, which is the body delimiter unless one is given; the
\* schema is left unchanged
C23_WriteHeadAppendsOneLine ==
    [][ WriteHead =>
          /\ fs' = fs
          /\ writer'.meta = writer.meta
          /\ writer'.buf =
                writer.buf \o WrittenHead(IF cfg.head.delimit.none THEN writer.delimit
                                         ELSE cfg.head.delimit.s)
      ]_vars

\* the same for header delimiters that are not the empty str
WriteHeadWithDelimiter ==
    [][ (WriteHead /\ cfg.head.delimit # Given(<<>>)) =>
          /\ fs' = fs
          /\ writer'.meta = writer.meta
          /\ writer'.buf =
                writer.buf \o WrittenHead(IF cfg.head.delimit.none THEN writer.delimit
                                         ELSE cfg.head.delimit.s)
      ]_vars

WriteHeadWithDelimiterReached ==
    /\ cfg.kind = "head"
    /\ pc = "headed"
    /\ cfg.opts.delimit = <<",">>
    /\ cfg.head.transform = PerKey(<<[k |-> ColA, v |-> "lower"]>>)
    /\ writer.meta = <<Col(ColB, "none"), Col(ColA, "none")>>
    /\ writer.buf = <<"#", "B", ";", "a", NL>>

\* the empty str given as header delimiter gives way to the body delimiter
EmptyHeaderDelimiterIgnored ==
    /\ cfg.kind = "head"
    /\ pc = "headed"
    /\ cfg.head.delimit = Given(<<>>)
    /\ cfg.head.transform = NoTransform
    /\ writer.buf = <<"B", ",", "A", NL>>

-----------------------------------------------------------------------------
(* One Reader on one file: construction, autoMeta, next, rewind, dump *)

MaxLines == 3
MaxIndex == 2

\* the values of skip
Skips == {0, 1}

\* the lines of the files, without their newline: a blank line, a comment, rows
BaseLines ==
    { <<>>, <<"#", "c">>, <<"a", TAB, "b">>, <<"a", "b", "3", TAB, "7", TAB, "z">>,
      <<"x">> }

\* a blank line and BED rows: three fields; all six; empty NAME, SCORE and STRAND; empty NAME
\* and STRAND with SCORE 0
BedLines ==
    { <<>>,
      <<"c", TAB, "1", TAB, "2">>,
      <<"c", TAB, "1", TAB, "2", TAB, "n", TAB, "5", TAB, "-">>,
      <<"c", TAB, "1", TAB, "2", TAB, TAB, TAB>>,
      <<"c", TAB, "1", TAB, "2", TAB, TAB, "0", TAB>> }

\* header lines and rows with and without a row name
HeadLines ==
    { <<"#", "c">>, <<"A", TAB, "B">>, <<"#", "A", TAB, "B">>,
      <<"r", TAB, "1", TAB, "2">>, <<"1", TAB, "2">>, <<TAB, "1", TAB, "2">> }

\* the text of a file given by its lines
RECURSIVE TextOf(_)
TextOf(ls) == IF ls = <<>> THEN <<>> ELSE ls[1] \o <<NL>> \o TextOf(Tail(ls))

LineSeqs(L, n) == [1..n -> L]

\* the schemas given to the generic Reader: none, plain and int columns, a
\* caller's converter
ReaderSchemas ==
    { <<>>,
      <<Col(ColA, "none"), Col(ColB, "int")>>,
      <<Col(ColA, "third"), Col(ColB, "none")>> }

BedTag == <<"b", "e", "d">>
HeadTag == <<"h", "e", "a", "d">>

\* a Reader configuration and the lines of its file
ReaderRun(t, S, k, ls) ==
    [kind |-> "reader", opts |-> [DefaultOpts EXCEPT !.ftype = t, !.cnames = S, !.skip = k],
     ls |-> ls]

\* what has been seen of the Reader: whether next() has raised StopIteration
\* since the read position was last reset
ReaderObs == [stopped |-> FALSE]

InitReader ==
    /\ \E n \in 0..MaxLines :
          \/ \E S \in ReaderSchemas, k \in Skips, ls \in LineSeqs(BaseLines, n) :
                cfg = ReaderRun(DefaultOpts.ftype, S, k, ls)
          \/ \E k \in Skips, ls \in LineSeqs(BedLines, n) :
                cfg = ReaderRun(BedTag, DefaultOpts.cnames, k, ls)
          \/ \E ls \in LineSeqs(HeadLines, n) :
                cfg = ReaderRun(HeadTag, DefaultOpts.cnames, 0, ls)
    /\ fs = <<TextOf(cfg.ls)>>
    /\ io = [opened |-> {}, created |-> {}]
    /\ readers = <<>>
    /\ writer = <<>>
    /\ lines = <<>>
    /\ m = 0
    /\ pc = "new"
    /\ err = NoErr
    /\ calls = <<>>
    /\ obs = ReaderObs

\* reader = TsvReader(infile, **inopts)
ReaderNew ==
    /\ pc = "new"
    /\ readers' = <<TsvReader(InPath, fs[InPath], cfg.opts).rd>>
    /\ io' = [io EXCEPT !.opened = @ \cup {InPath}]
    /\ pc' = "built"
    /\ UNCHANGED <<fs, cfg, writer, lines, m, err, calls, obs>>

\* reader.autoMeta(), called while the schema is empty
ReaderAutoMeta ==
    /\ pc # "new"
    /\ readers[1].meta = <<>>
    /\ readers' = <<autoMeta(readers[1], fs[InPath])>>
    /\ pc' = "meta"
    /\ lines' = <<>>
    /\ err' = NoErr
    /\ obs' = [obs EXCEPT !.stopped = FALSE]
    /\ UNCHANGED <<fs, io, cfg, writer, m, calls>>

\* reader.next(): the row it returns or the exception it raises
ReaderNext ==
    /\ pc # "new"
    /\ readers[1].index <= MaxIndex
    /\ LET r == next(readers[1], fs[InPath])
       IN  /\ readers' = <<r.rd>>
           /\ lines' = IF r.exc = "" THEN <<r.row>> ELSE <<>>
           /\ err' = IF r.exc = "" THEN NoErr ELSE Raised(r.exc, <<>>)
           /\ obs' = [obs EXCEPT !.stopped = @ \/ r.exc = "StopIteration"]
    /\ pc' = "next"
    /\ UNCHANGED <<fs, io, cfg, writer, m, calls>>

\* reader.rewind()
ReaderRewind ==
    /\ pc # "new"
    /\ readers' = <<rewind(readers[1])>>
    /\ pc' = "rewound"
    /\ lines' = <<>>
    /\ err' = NoErr
    /\ obs' = [obs EXCEPT !.stopped = FALSE]
    /\ UNCHANGED <<fs, io, cfg, writer, m, calls>>

\* reader.dump(): the list it returns or the exception that leaves it
ReaderDump ==
    /\ pc # "new"
    /\ readers[1].index <= MaxIndex
    /\ readers' = <<dumpEnd(readers[1], fs[InPath])>>
    /\ lines' = IF dumpRaises(readers[1], fs[InPath]) = ""
                THEN dump(readers[1], fs[InPath]) ELSE <<>>
    /\ err' = IF dumpRaises(readers[1], fs[InPath]) = "" THEN NoErr
              ELSE Raised(dumpRaises(readers[1], fs[InPath]), <<>>)
    /\ obs' = [obs EXCEPT !.stopped = @ \/ dumpRaises(readers[1], fs[InPath]) = ""]
    /\ pc' = "dumped"
    /\ UNCHANGED <<fs, io, cfg, writer, m, calls>>

NextReader ==
    \/ ReaderNew
    \/ ReaderAutoMeta
    \/ ReaderNext
    \/ ReaderRewind
    \/ ReaderDump

SpecReader == InitReader /\ [][NextReader]_vars

-----------------------------------------------------------------------------
(* Properties of the Readers, checked under SpecReader *)

\* the Reader has been built and nothing has been asked of it yet
Fresh == pc = "built"

\* a Reader built on the file of lines ls with the options of the run, its
\* schema derived from the first line when no schema was given
ReaderOn(ls) ==
    LET r == TsvReader(InPath, TextOf(ls), cfg.opts).rd
    IN  IF r.meta = <<>> THEN autoMeta(r, TextOf(ls)) ELSE r

\* what draining that Reader gives: the rows, and the exception if it raises
RecordsOf(ls) ==
    [rows |-> dump(ReaderOn(ls), TextOf(ls)), exc |-> dumpRaises(ReaderOn(ls), TextOf(ls))]

\* the lines ls with one comment line put in after the first k lines
CommentLine == cfg.opts.comment \o <<"z">>
WithComment(ls, k) == SubSeq(ls, 1, k) \o <<CommentLine>> \o SubSeq(ls, k + 1, Len(ls))

\* the places a comment line goes without shifting the lines skip consumes
Places == cfg.opts.skip..Len(cfg.ls)

\* C11: for any Reader configuration, header-derived formats included, a
\* comment line put in anywhere after the skipped lines does not change the
\* sequence of Records the Reader produces
C11_CommentInvariance ==
    Fresh => \A k \in Places : RecordsOf(WithComment(cfg.ls, k)) = RecordsOf(cfg.ls)

\* for the Readers without a header line the Records do not change
CommentInvarianceWithoutHeader ==
    (Fresh /\ cfg.opts.ftype # HeadTag) =>
        \A k \in Places : RecordsOf(WithComment(cfg.ls, k)) = RecordsOf(cfg.ls)

CommentInvarianceWithoutHeaderReached ==
    /\ Fresh
    /\ cfg.opts.ftype = BedTag
    /\ cfg.opts.skip = 1
    /\ Len(cfg.ls) = 3
    /\ Len(RecordsOf(cfg.ls).rows) = 2

\* the Reader of the run
TheReader == readers[1]

\* the number of lines of the file that lie before the read position
LinesRead ==
    CHOOSE k \in 0..Len(cfg.ls) : Len(TextOf(SubSeq(cfg.ls, 1, k))) = TheReader.pos

\* the lines from the read position on
LinesAhead == SubSeq(cfg.ls, LinesRead + 1, Len(cfg.ls))

IsComment(line) == cfg.opts.comment # <<>> /\ StartsWith(line, cfg.opts.comment)

\* the lines of ls that are no comment lines, up to the first empty one
RECURSIVE DataAhead(_)
DataAhead(ls) ==
    IF ls = <<>> THEN <<>>
    ELSE IF IsComment(ls[1]) THEN DataAhead(Tail(ls))
    ELSE IF ls[1] = <<>> THEN <<>>
    ELSE <<ls[1]>> \o DataAhead(Tail(ls))

\* the Records of the lines ls, parsed one after the other by the Reader rd
RECURSIVE RowsOf(_, _)
RowsOf(rd, ls) ==
    IF ls = <<>> THEN <<>>
    ELSE LET r == parse(rd, Split(ls[1], rd.delimit))
         IN  IF r.exc # "" THEN <<>> ELSE <<r.row>> \o RowsOf(r.rd, Tail(ls))

\* C12: next() passes over every comment line and raises StopIteration at
\* the first remaining line that is empty or at the end of the file, and a
\* drain that returns yields the Records of the non-comment lines before the
\* first empty line, in file order, and nothing after it
C12_NextStopsAtBlankLine ==
    [][ /\ ReaderNext =>
            (err'.type = "StopIteration" <=> DataAhead(LinesAhead) = <<>>)
        /\ (ReaderDump /\ err' = NoErr) =>
            lines' = RowsOf(TheReader, DataAhead(LinesAhead)) ]_vars

C12_Reached ==
    /\ pc = "dumped"
    /\ err = NoErr
    /\ cfg.ls = << <<"#", "c">>, <<"x">>, <<>> >>
    /\ cfg.opts.cnames # <<>>
    /\ Len(lines) = 1

\* a drain stops at an empty line that has rows after it
DrainLeavesRowsBehind ==
    /\ pc = "dumped"
    /\ err = NoErr
    /\ cfg.ls = << <<"x">>, <<>>, <<"a", TAB, "b">> >>
    /\ cfg.opts.skip = 0
    /\ Len(lines) = 1

\* C13: once next() has raised StopIteration, every later next() without a
\* rewind in between raises it again, and a second drain returns the empty list
C13_ExhaustedStaysExhausted ==
    [][ /\ (obs.stopped /\ ReaderNext) => err'.type = "StopIteration"
        /\ (obs.stopped /\ ReaderDump) => (err' = NoErr /\ lines' = <<>>) ]_vars

\* the fields of the line next() is about to parse, when there is one
NextFields == Split(DataAhead(LinesAhead)[1], TheReader.delimit)

\* the Readers that parse with TsvReaderBase._parse itself
BaseParse == TheReader.cls \in {"Base", "Head"}

\* the keys that have a field on the line
WithField == {i \in 1..Len(TheReader.meta) : i <= Len(NextFields)}

\* C14: parsing a line with TsvReaderBase._parse gives a Record with exactly
\* the schema's keys in schema order; key i holds field i passed through its
\* converter (the raw text without one), a key past the last field holds ''
\* and its converter is not called, fields past the schema are left out
C14_ParseFollowsSchema ==
    [][ (ReaderNext /\ BaseParse /\ DataAhead(LinesAhead) # <<>>) =>
          /\ (\A i \in WithField : Convert(TheReader.meta[i].c, NextFields[i]).exc = "")
                => err' = NoErr
          /\ err' = NoErr =>
                /\ lines'[1].t = "record"
                /\ Len(lines'[1].v) = Len(TheReader.meta)
                /\ \A i \in 1..Len(TheReader.meta) :
                      /\ lines'[1].v[i].k = TheReader.meta[i].k
                      /\ i \notin WithField => lines'[1].v[i].v = StrVal(<<>>)
                      /\ (i \in WithField /\ TheReader.meta[i].c = "none")
                            => lines'[1].v[i].v = StrVal(NextFields[i])
                      /\ (i \in WithField
                            /\ Convert(TheReader.meta[i].c, NextFields[i]).exc = "")
                            => lines'[1].v[i].v = Convert(TheReader.meta[i].c, NextFields[i]).v
      ]_vars

C14_Reached ==
    /\ pc = "next"
    /\ err = NoErr
    /\ TheReader.cls = "Base"
    /\ TheReader.meta = <<Col(ColA, "third"), Col(ColB, "none")>>
    /\ cfg.ls = << <<"a", "b", "3", TAB, "7", TAB, "z">> >>
    /\ lines = <<RecordRow(<<[k |-> ColA, v |-> StrVal(<<"3">>)],
                            [k |-> ColB, v |-> StrVal(<<"7">>)]>>)>>

\* a line shorter than the schema gives '' for the keys past its last field
ShortLineParsed ==
    /\ pc = "next"
    /\ err = NoErr
    /\ TheReader.meta = <<Col(ColA, "none"), Col(ColB, "int")>>
    /\ lines = <<RecordRow(<<[k |-> ColA, v |-> StrVal(<<"x">>)],
                            [k |-> ColB, v |-> StrVal(<<>>)]>>)>>

\* the keys whose converter raises on the field of the line
Failing == {i \in WithField : Convert(TheReader.meta[i].c, NextFields[i]).exc # ""}

\* C15: when a converter raises on a field, whatever the type of the error,
\* next() raises that error: it is not caught and no value is put in its place
C15_ConverterErrorsPropagate ==
    [][ (ReaderNext /\ DataAhead(LinesAhead) # <<>> /\ Failing # {}) =>
            \E i \in Failing :
                err'.type = Convert(TheReader.meta[i].c, NextFields[i]).exc ]_vars

\* errors other than IndexError do leave next()
OtherErrorsPropagate ==
    [][ (ReaderNext /\ DataAhead(LinesAhead) # <<>>) =>
            \A i \in Failing :
                (/\ Convert(TheReader.meta[i].c, NextFields[i]).exc # "IndexError"
                 /\ \A j \in Failing : i <= j)
                    => err'.type = Convert(TheReader.meta[i].c, NextFields[i]).exc ]_vars

OtherErrorsPropagateReached ==
    /\ pc = "next"
    /\ err.type = "ValueError"
    /\ TheReader.cls = "Base"
    /\ TheReader.meta = <<Col(ColA, "none"), Col(ColB, "int")>>

\* a Reader newly built on the file, given the schema the Reader has now
FreshReader ==
    [TsvReader(InPath, fs[InPath], cfg.opts).rd EXCEPT !.meta = TheReader.meta]

Drained(rd) == [rows |-> dump(rd, fs[InPath]), exc |-> dumpRaises(rd, fs[InPath])]

\* C16: for any Reader format, after any number of next() calls and then
\* rewind(), the Reader produces the Records a newly built Reader produces
C16_RewindRestores == pc = "rewound" => Drained(TheReader) = Drained(FreshReader)

\* for the Readers without the BED name counter, rewind() gives the Reader
\* a newly built one is
RewindRestoresWithoutCounter ==
    (pc = "rewound" /\ TheReader.cls # "Bed") => TheReader = FreshReader

RewindRestoresWithoutCounterReached ==
    /\ pc = "rewound"
    /\ TheReader.cls = "Head"
    /\ Len(TheReader.meta) = 3
    /\ Len(Drained(TheReader).rows) = 2

\* the lines after the ones skip consumes
AfterSkip == SubSeq(cfg.ls, cfg.opts.skip + 1, Len(cfg.ls))

\* the first line of ls that is no comment line, <<>> when there is none
RECURSIVE FirstNonComment(_)
FirstNonComment(ls) ==
    IF ls = <<>> THEN <<>>
    ELSE IF IsComment(ls[1]) THEN FirstNonComment(Tail(ls))
    ELSE ls[1]

\* the schema COL1 .. COLn
Placeholders(n) == [i \in 1..n |-> Col(<<"C", "O", "L">> \o IntToStr(i), "none")]

\* the Record of the fields under the schema COL1 .. COLn
PlaceholderRow(fields) ==
    RecordRow([i \in 1..Len(fields) |-> [k |-> Placeholders(Len(fields))[i].k,
                                         v |-> StrVal(fields[i])]])

\* the Reader has the schema COL1..COLn of the line, is otherwise the Reader
\* rd at its checkpoint, and produces the line, when it is not empty, next
DerivedFrom(rd, after, line) ==
    /\ after = [rd EXCEPT !.meta = Placeholders(Len(Split(line, rd.delimit))),
                          !.pos = rd.tell]
    /\ line # <<>> =>
          next(after, fs[InPath]).row = PlaceholderRow(Split(line, rd.delimit))

\* C17 as stated: autoMeta() on a Reader with an empty schema sets the schema
\* to COL1..COLn, n the number of fields of the first non-comment line after
\* the skipped lines, and consumes nothing: that line is produced next
C17_AsStated ==
    [][ (ReaderAutoMeta /\ FirstNonComment(AfterSkip) # <<>>) =>
            DerivedFrom(TheReader, readers'[1], FirstNonComment(AfterSkip)) ]_vars

\* C17: autoMeta() on a Reader with an empty schema whose read position is
\* at the checkpoint sets the schema to COL1..COLn, n the number of fields of
\* the first non-comment line after the skipped lines (one when that line is
\* empty or missing), changes nothing else, and that line, when it is not
\* empty, is produced next
C17_AutoMetaAtCheckpoint ==
    [][ (ReaderAutoMeta /\ TheReader.pos = TheReader.tell) =>
            DerivedFrom(TheReader, readers'[1], FirstNonComment(AfterSkip)) ]_vars

C17_Reached ==
    /\ pc = "meta"
    /\ cfg.opts.skip = 1
    /\ cfg.ls = << <<"x">>, <<"#", "c">>, <<"a", "b", "3", TAB, "7", TAB, "z">> >>
    /\ TheReader.meta = Placeholders(3)
    /\ TheReader.pos = TheReader.tell
    /\ LinesRead = 1

\* autoMeta() called after a row has been read takes the columns of a later line
AutoMetaAfterNext ==
    /\ pc = "meta"
    /\ cfg.opts.skip = 0
    /\ cfg.ls = << <<"x">>, <<"a", TAB, "b">> >>
    /\ TheReader.meta = Placeholders(2)

\* field i of the line next() is about to parse is empty or absent
NoField(i) == Len(NextFields) < i \/ NextFields[i] = <<>>

\* the Record next() has returned holds value v under key k
Gets(row, k, v) == \E j \in 1..Len(row.v) : row.v[j].k = k /\ row.v[j].v = v

\* the BED defaults of the row next() has returned
BedDefaults(row) ==
    /\ NoField(4) => Gets(row, NAME, StrVal(<<"B", "E", "D">> \o IntToStr(TheReader.index)))
    /\ NoField(5) => Gets(row, SCORE, FloatVal(<<"0", ".", "0">>))
    /\ NoField(6) => Gets(row, STRAND, StrVal(<<"+">>))

\* C18: the BED Reader gives every row whose NAME is empty or absent the
\* name BED<n>, n counting the names synthesized so far from 1, every row
\* whose SCORE is empty or absent the score 0.0, and every row whose STRAND
\* is empty or absent the strand '+'
C18_BedDefaults ==
    [][ (ReaderNext /\ TheReader.cls = "Bed" /\ DataAhead(LinesAhead) # <<>>) =>
          /\ err' = NoErr
          /\ BedDefaults(lines'[1])
          /\ readers'[1].index = TheReader.index + (IF NoField(4) THEN 1 ELSE 0) ]_vars

\* the defaults are given when the SCORE field is absent or holds a number
BedDefaultsWhenScoreConverts ==
    [][ (/\ ReaderNext /\ TheReader.cls = "Bed" /\ DataAhead(LinesAhead) # <<>>
         /\ (Len(NextFields) < 5 \/ IsFloatText(NextFields[5]))) =>
          /\ err' = NoErr
          /\ BedDefaults(lines'[1])
          /\ readers'[1].index = TheReader.index + (IF NoField(4) THEN 1 ELSE 0) ]_vars

BedDefaultsWhenScoreConvertsReached ==
    /\ pc = "next"
    /\ err = NoErr
    /\ TheReader.cls = "Bed"
    /\ TheReader.index = 3
    /\ LinesRead = 2
    /\ Gets(lines[1], NAME, StrVal(<<"B", "E", "D", "2">>))
    /\ Gets(lines[1], SCORE, FloatVal(<<"0", ".", "0">>))
    /\ Gets(lines[1], STRAND, StrVal(<<"+">>))

\* the header line and the line after it, for the Head Reader with skip = 0
HeaderLine == cfg.ls[1]
FirstRow == cfg.ls[2]

\* the names on the header line, its leading '#', tabs and spaces trimmed
HeaderNames == Split(LStrip(HeaderLine, {"#", TAB, " "}), cfg.opts.delimit)

\* the schema the header and the first data line call for
HeadSchema ==
    IF Len(Split(FirstRow, cfg.opts.delimit)) = Len(HeaderNames) + 1
    THEN <<ROWNAMES>> \o HeaderNames
    ELSE HeaderNames

\* the Head Reader was built on a header line followed by a data line
HeadBuilt ==
    /\ Fresh
    /\ cfg.opts.ftype = HeadTag
    /\ Len(cfg.ls) >= 2
    /\ ~IsComment(FirstRow)

\* the schema is HeadSchema, and the first Record is the first data line
HeadReads ==
    /\ [i \in 1..Len(TheReader.meta) |-> TheReader.meta[i].k] = HeadSchema
    /\ LinesRead = 1
    /\ next(TheReader, fs[InPath]).row =
          RecordRow([i \in 1..Len(HeadSchema) |->
                        [k |-> HeadSchema[i],
                         v |-> IF i <= Len(Split(FirstRow, cfg.opts.delimit))
                               THEN StrVal(Split(FirstRow, cfg.opts.delimit)[i])
                               ELSE StrVal(<<>>)]])

\* C19: the Head Reader's schema is the list of names on the header line,
\* with ROWNAMES put in front exactly when the first data line has one more
\* field than the header; the header is not produced as a Record and the
\* first Record is the first data line
C19_HeadSchema == HeadBuilt => HeadReads

\* the same when the first data line neither starts nor ends with an empty field
HeadSchemaOfFullRow ==
    (HeadBuilt /\ Strip(FirstRow, Whitespace) = FirstRow) => HeadReads

HeadSchemaOfFullRowReached ==
    /\ HeadBuilt
    /\ HeaderLine = <<"#", "A", TAB, "B">>
    /\ FirstRow = <<"r", TAB, "1", TAB, "2">>
    /\ HeadSchema = <<ROWNAMES, <<"A">>, <<"B">>>>
    /\ HeadReads


-----------------------------------------------------------------------------
(* The schema of a Writer: its construction, then one call of add, append or
   prepend *)

\* an argument list holds at most MaxArgs arguments
MaxArgs == 2

\* the arguments: the names A and B, bare, paired with no converter, with a
\* function, with a non-empty str ("text") and with 0 ("zero"), and in lists
MetaArgs ==
    { Name(k) : k \in {ColA, ColB} }
    \cup { Pair(k, c) : k \in {ColA, ColB}, c \in {"none", "int", "text", "zero"} }
    \cup { List(<<Name(ColA)>>), List(<<Name(ColB), Name(ColA)>>),
           List(<<Pair(ColA, "int")>>), List(<<Name(ColA), Pair(ColB, "text")>>) }

ArgLists == UNION { [1..n -> MetaArgs] : n \in 1..MaxArgs }

\* the arguments the schema is constructed from
InitArgLists ==
    { <<>>, <<Name(ColA)>>, <<Name(ColC), Pair(ColA, "int"), Name(ColB)>>,
      <<Pair(ColB, "zero")>>, <<Pair(ColA, "text")>>, <<List(<<Pair(ColA, "int")>>)>> }

InitMeta ==
    /\ cfg = [kind |-> "meta", opts |-> DefaultOpts, record |-> <<>>]
    /\ fs = InitFiles
    /\ io = [opened |-> {}, created |-> {}]
    /\ readers = <<>>
    /\ writer = <<>>
    /\ lines = <<>>
    /\ m = 0
    /\ pc = "new"
    /\ err = NoErr
    /\ calls = <<>>
    /\ obs = NoObs

\* one call on the schema: what it raises, what it leaves
MetaCall(op, args, r) ==
    /\ calls' = Append(calls, [op |-> op, args |-> args])
    /\ writer' = [writer EXCEPT !.meta = r.meta]
    /\ IF r.exc # ""
       THEN /\ pc' = "raised"
            /\ err' = Raised(r.exc, <<>>)
       ELSE /\ pc' = "called"
            /\ err' = err
    /\ UNCHANGED <<fs, io, cfg, readers, lines, m, obs>>

\* writer = TsvWriterBase(outfile); writer.meta = TsvMeta(*args)
NewMeta ==
    /\ pc = "new"
    /\ \E args \in InitArgLists :
          LET r == TsvMeta_init(args)
          IN  /\ calls' = Append(calls, [op |-> "TsvMeta", args |-> args])
              /\ writer' = [TsvWriterBase_init(OutPath, <<TAB>>) EXCEPT !.meta = r.meta]
              /\ fs' = [fs EXCEPT ![OutPath] = <<>>]
              /\ io' = [io EXCEPT !.created = @ \cup {OutPath}]
              /\ IF r.exc # ""
                 THEN /\ pc' = "raised"
                      /\ err' = Raised(r.exc, <<>>)
                 ELSE /\ pc' = "meta"
                      /\ err' = err
    /\ UNCHANGED <<cfg, readers, lines, m, obs>>

\* writer.meta.add(*args)
CallAdd ==
    /\ pc = "meta"
    /\ \E args \in ArgLists : MetaCall("add", args, TsvMeta_add(writer.meta, args))

\* writer.meta.append(*args)
CallAppend ==
    /\ pc = "meta"
    /\ \E args \in ArgLists : MetaCall("append", args, TsvMeta_append(writer.meta, args))

\* writer.meta.prepend(*args)
CallPrepend ==
    /\ pc = "meta"
    /\ \E args \in ArgLists : MetaCall("prepend", args, TsvMeta_prepend(writer.meta, args))

NextMeta ==
    \/ NewMeta
    \/ CallAdd
    \/ CallAppend
    \/ CallPrepend

SpecMeta == InitMeta /\ [][NextMeta]_vars

-----------------------------------------------------------------------------
(* Properties of the schema, checked under SpecMeta *)

\* the arguments with every list replaced by its elements
RECURSIVE Flatten(_)
Flatten(args) ==
    IF args = <<>> THEN <<>>
    ELSE (IF args[1].t = "list" THEN args[1].items ELSE <<args[1]>>)
         \o Flatten(Tail(args))

\* the entries the arguments supply: a name with its converter, if any
Supplied(args) == [i \in 1..Len(Flatten(args)) |-> Col(Flatten(args)[i].k, Flatten(args)[i].c)]

\* the entries of old whose names are not among those of new
Others(old, new) ==
    SelectSeq(old, LAMBDA e : \A i \in 1..Len(new) : new[i].k # e.k)

NoPairsInLists(args) ==
    \A i \in 1..Len(args) : \A j \in 1..Len(args[i].items) : args[i].items[j].t = "name"

\* C24: after prepend the schema lists the entries supplied first, in the
\* order given, then all previously existing entries in their original
\* relative order, with names unique; add and append put new names after all
\* existing ones
C24_PrependRebuildsOrder ==
    [][ /\ (CallPrepend /\ pc' = "called") =>
              LET new == MetaAdd(<<>>, Supplied(calls'[Len(calls')].args))
              IN  writer'.meta = new \o Others(writer.meta, new)
        /\ ((CallAdd \/ CallAppend) /\ pc' = "called") =>
              writer'.meta = MetaAdd(writer.meta, Supplied(calls'[Len(calls')].args))
      ]_vars

Names(meta) == [i \in 1..Len(meta) |-> meta[i].k]

\* what holds of prepend, add and append given names, pairs and lists of
\* names: the column order is as C24 states, the names are unique, and every
\* name the schema held before keeps the converter it had
PrependOrder ==
    [][ /\ (CallPrepend /\ pc' = "called" /\ NoPairsInLists(calls'[Len(calls')].args)) =>
              LET new == MetaAdd(<<>>, Supplied(calls'[Len(calls')].args))
              IN  /\ Names(writer'.meta) = Names(new) \o Names(Others(writer.meta, new))
                  /\ \A i, j \in 1..Len(writer'.meta) :
                        writer'.meta[i].k = writer'.meta[j].k => i = j
                  /\ \A i \in 1..Len(writer'.meta) :
                        \/ \E j \in 1..Len(writer.meta) : writer.meta[j] = writer'.meta[i]
                        \/ /\ \A j \in 1..Len(writer.meta) :
                                 writer.meta[j].k # writer'.meta[i].k
                           /\ writer'.meta[i] = new[i]
        /\ ((CallAdd \/ CallAppend) /\ pc' = "called"
              /\ NoPairsInLists(calls'[Len(calls')].args)) =>
              writer'.meta = MetaAdd(writer.meta, Supplied(calls'[Len(calls')].args))
      ]_vars

PrependOrderReached ==
    /\ pc = "called"
    /\ calls = << [op |-> "TsvMeta",
                  args |-> <<Name(ColC), Pair(ColA, "int"), Name(ColB)>>],
                 [op |-> "prepend", args |-> <<List(<<Name(ColB), Name(ColA)>>)>>] >>
    /\ writer.meta = <<Col(ColB, "none"), Col(ColA, "int"), Col(ColC, "none")>>

\* prepend with a pair whose name the schema holds: the converter supplied is
\* dropped, the one the schema held is kept
PrependKeepsOldConverter ==
    /\ pc = "called"
    /\ calls = << [op |-> "TsvMeta", args |-> <<Name(ColA)>>],
                 [op |-> "prepend", args |-> <<Pair(ColA, "int")>>] >>
    /\ writer.meta = <<Col(ColA, "none")>>

\* one of the four calls has been made
MetaStep == NewMeta \/ CallAdd \/ CallAppend \/ CallPrepend

\* C25: construction, add, append and prepend raise TypeError, at that call,
\* whenever an entry supplies a converter that is not callable, None excepted
C25_NonCallableRefused ==
    [][ MetaStep =>
          ( (pc' = "raised" /\ err'.type = "TypeError")
            <=> \E i \in 1..Len(Supplied(calls'[Len(calls')].args)) :
                   LET c == Supplied(calls'[Len(calls')].args)[i].c
                   IN  c # "none" /\ ~Callable(c) )
      ]_vars

\* what the code does: TypeError is raised, at that call, exactly when an
\* argument is a pair whose converter is true and not callable
TruePairRefused ==
    [][ MetaStep =>
          ( (pc' = "raised" /\ err'.type = "TypeError")
            <=> \E i \in 1..Len(calls'[Len(calls')].args) :
                   LET a == calls'[Len(calls')].args[i]
                   IN  a.t = "tuple" /\ ConvTrue(a.c) /\ ~Callable(a.c) )
      ]_vars

TruePairRefusedReached ==
    /\ pc = "raised"
    /\ err.type = "TypeError"
    /\ calls[Len(calls)] = [op |-> "prepend", args |-> <<Name(ColB), Pair(ColA, "text")>>]
    /\ writer.meta = <<Col(ColC, "none"), Col(ColA, "int"), Col(ColB, "none")>>

\* a converter that is 0 is accepted, and so is a str paired with a name
\* inside a list
FalseConverterAccepted ==
    /\ pc = "called"
    /\ calls[Len(calls)] =
          [op |-> "add", args |-> <<Pair(ColA, "zero"), List(<<Name(ColA), Pair(ColB, "text")>>)>>]

\* C26: add, append, prepend and the constructor, given a list of names and
\* of (name, converter) pairs, do what they do given the elements of the list
\* as individual arguments
C26_ListOfPairs ==
    [][ /\ NewMeta => [exc |-> err'.type, meta |-> writer'.meta]
                        = TsvMeta_init(Flatten(calls'[Len(calls')].args))
        /\ (CallAdd \/ CallAppend) =>
              [exc |-> err'.type, meta |-> writer'.meta]
                 = TsvMeta_add(writer.meta, Flatten(calls'[Len(calls')].args))
        /\ CallPrepend =>
              [exc |-> err'.type, meta |-> writer'.meta]
                 = TsvMeta_prepend(writer.meta, Flatten(calls'[Len(calls')].args))
      ]_vars

\* the same for lists of bare names
ListOfNames ==
    [][ NoPairsInLists(calls'[Len(calls')].args) =>
          /\ NewMeta => [exc |-> err'.type, meta |-> writer'.meta]
                          = TsvMeta_init(Flatten(calls'[Len(calls')].args))
          /\ (CallAdd \/ CallAppend) =>
                [exc |-> err'.type, meta |-> writer'.meta]
                   = TsvMeta_add(writer.meta, Flatten(calls'[Len(calls')].args))
          /\ CallPrepend =>
                [exc |-> err'.type, meta |-> writer'.meta]
                   = TsvMeta_prepend(writer.meta, Flatten(calls'[Len(calls')].args))
      ]_vars

ListOfNamesReached ==
    /\ pc = "called"
    /\ calls[Len(calls)] =
          [op |-> "add", args |-> <<List(<<Name(ColB), Name(ColA)>>), Pair(ColB, "int")>>]
    /\ writer.meta = <<Col(ColB, "int"), Col(ColA, "none")>>

\* the pair inside a list becomes a key of the schema, with no converter
PairInListBecomesKey ==
    /\ pc = "called"
    /\ calls = << [op |-> "TsvMeta", args |-> <<>>],
                 [op |-> "add", args |-> <<List(<<Pair(ColA, "int")>>)>>] >>
    /\ writer.meta = <<Col(TupleKey(ColA, "int"), "none")>>

====
